---- MODULE Spec2Model ----
\* Model of the ECS rollback stage executor (package ecs, rollbackExecutor)
\* together with the collaborators it drives: the Stop Signal, the shared
\* Metadata Store and the Platform Client; of the Pipeline Engine, the wait
\* plugin, sourcedecrypter.DecryptSecrets, config.PipedSpec and, of the web
\* console, the deploymentFrequency slice, the DeleteApplicationDialog and
\* the LiveStateView.
EXTENDS Integers, Sequences, FiniteSets, TLC

\* ---------------------------------------------------------------------
\* Bounds
\* ---------------------------------------------------------------------
\* Number of task sets the service may own before the rollback starts.
MaxTaskSets == 3
\* Number of listeners attached to the primary target group.
MaxListeners == 2
\* Number of deployments the Pipeline Engine drives at the same time.
MaxDeployments == 2
\* Number of stages of one deployment's pipeline.
MaxPipelineStages == 2
\* Number of writes to the shared partition of one Metadata Store.
MaxWrites == 2
\* Number of stages in one BuildPipelineSyncStages request.
MaxRequestStages == 3
\* Number of entries of SecretEncryption.DecryptionTargets.
MaxTargets == 2
\* Number of entries of PipedSpec.Repositories.
MaxRepositories == 2
\* Number of entries of PipedSpec.CloudProviders in the configuration file.
MaxCloudProviders == 3
\* Number of calls of EnableDefaultKubernetesCloudProvider.
MaxEnableCalls == 2
\* Number of data points in the payload of a fulfilled fetch.
MaxDataPoints == 1
\* Number of deleteApplication requests the Delete button starts.
MaxDeletes == 3
\* Number of resources in the list given to the LiveStateView.
MaxResources == 2

\* ---------------------------------------------------------------------
\* Values
\* ---------------------------------------------------------------------
Nil == "nil"

StageRollback == "ROLLBACK"
StageNames == {StageRollback, "ECS_SYNC"}

STAGE_NOT_STARTED_YET == "STAGE_NOT_STARTED_YET"
STAGE_RUNNING == "STAGE_RUNNING"
STAGE_SUCCESS == "STAGE_SUCCESS"
STAGE_FAILURE == "STAGE_FAILURE"
STAGE_CANCELLED == "STAGE_CANCELLED"
NoStatus == "none"

canaryTargetGroupArnKey == "canary-target-group-arn"

PrimaryArn == "tg-primary"
CanaryArn == "tg-canary"
StoredCanaryArn == "tg-canary-stored"

TaskSetIds == 1..MaxTaskSets
\* Identifier the platform gives to the task set created by the rollback.
NewTaskSetId == MaxTaskSets + 1
ListenerIds == 1..MaxListeners

PlatformOps == {"RegisterTaskDefinition", "applyServiceDefinition",
                "GetServiceTaskSets", "CreateTaskSet",
                "UpdateServicePrimaryTaskSet", "GetListenerArns",
                "ModifyListeners", "DeleteTaskSet"}

VARIABLES
    \* executor.Input
    stageName,          \* e.Stage.Name
    originalStatus,     \* e.Stage.Status when Execute is entered
    runningCommitHash,  \* e.Deployment.RunningCommitHash
    sharedMeta,         \* MetadataStore.Shared(): value under the canary key, or Nil
    \* Stop Signal
    sigState,           \* active / cancelled / timedout / consumed
    lateStop,           \* where Execute stood when a stop request arrived after
                        \* the signal was consumed, or Nil
    firedAt,            \* number of calls issued when the signal fired, or -1
    \* platform (remote) state
    taskSets,           \* task sets of the service
    primaryTaskSets,    \* the task sets of the service marked PRIMARY
    taskDefRev,         \* number of registered task definition revisions
    liveService,        \* which service definition the live service matches
    listeners,          \* listeners of the primary target group
    listenerCfg,        \* routing configuration applied to each listener
    \* control state and locals of Execute / ensureRollback / rollback / rollbackELB
    pc,
    primaryTargetGroup,
    canaryTargetGroup,
    td,
    prevTaskSets,
    delIdx,
    taskSet,
    canaryTargetGroupArn,
    routingTrafficCfg,
    currListenerArns,
    modifiedRules,
    status,             \* raw status returned by ensureRollback
    \* observations
    loaded,             \* preparation steps that completed
    calls,              \* Platform Client calls issued, in order, with their outcome
    loggedRules,        \* rules handed to logModifiedRules
    logModifiedCalls,   \* number of logModifiedRules invocations
    metaReads,          \* number of reads of the shared metadata store
    sampled,            \* sig.Signal() as sampled by Execute
    result              \* value returned by Execute

VARIABLES
    \* Pipeline Engine
    engStatus,          \* status of every stage of every deployment
    \* Metadata Store of one deployment, shared partition
    metaStore,          \* value stored under each key, or Nil
    metaWrites,         \* the set operations performed, in order
    metaStage,          \* index of the stage being executed
    metaGot,            \* the latest get: key, result, stage, writes seen
    \* wait plugin
    waitRequest,        \* input.Request.Stages
    waitResponse,       \* response and error of BuildPipelineSyncStages
    waitExecute,        \* response and error of ExecuteStage
    waitDefined         \* stage names returned by FetchDefinedStages

VARIABLES
    \* sourcedecrypter.DecryptSecrets
    decSources,         \* the template each source file was written with
    decEncrypted,       \* enc.EncryptedSecrets
    decTargets,         \* enc.DecryptionTargets
    decFiles,           \* content of every file of the application directory
    decRendered,        \* files already overwritten by DecryptSecrets
    decData,            \* the decrypted secrets handed to the templates
    decIdx,             \* position in the loop over the targets
    decPc,              \* where DecryptSecrets stands
    decErr              \* the error DecryptSecrets returned, or Nil

VARIABLES
    \* config.PipedSpec
    cfgRepositories,    \* s.Repositories
    cfgRepoGot,         \* the latest GetRepository: id, repository, found
    cfgMapGot,          \* the latest GetRepositoryMap
    cfgCloudProviders,  \* s.CloudProviders
    cfgConfigured,      \* s.CloudProviders as configured
    cfgAfterFirst,      \* s.CloudProviders after the first
                        \* EnableDefaultKubernetesCloudProvider
    cfgEnableCalls,     \* number of EnableDefaultKubernetesCloudProvider calls
    \* deploymentFrequency slice
    sliceState,         \* DeploymentFrequencyState
    sliceLast           \* the latest action reduced, and the state it met

VARIABLES
    \* DeleteApplicationDialog
    dlgApplicationId,   \* state.deleteApplication.applicationId, or Nil
    dlgDeleting,        \* state.deleteApplication.deleting
    dlgInFlight,        \* deleteApplication requests not yet settled
    dlgLog,             \* requests, their outcomes, onDeleted calls, toasts
    dlgLast,            \* the latest event, and isDeleting when it happened
    \* LiveStateView
    lsvAllResources,    \* the resources prop
    lsvSelected,        \* deployTargetTabSelected
    lsvLast             \* the latest event, and the selection it met

dlgVars == <<dlgApplicationId, dlgDeleting, dlgInFlight, dlgLog, dlgLast>>
lsvVars == <<lsvAllResources, lsvSelected, lsvLast>>
engVars == <<engStatus>>
repoVars == <<cfgRepositories, cfgRepoGot, cfgMapGot>>
cpVars == <<cfgCloudProviders, cfgConfigured, cfgAfterFirst, cfgEnableCalls>>
sliceVars == <<sliceState, sliceLast>>
decVars == <<decSources, decEncrypted, decTargets, decFiles, decRendered,
             decData, decIdx, decPc, decErr>>
metaVars == <<metaStore, metaWrites, metaStage, metaGot>>
waitVars == <<waitRequest, waitResponse, waitExecute, waitDefined>>

\* What an execution of the rollback stage never writes: its inputs and
\* the state of the other components.
inVars == <<stageName, originalStatus, runningCommitHash, sharedMeta,
            engVars, metaVars, waitVars, decVars, repoVars, cpVars,
            sliceVars, dlgVars, lsvVars>>
sigVars == <<sigState, lateStop, firedAt>>
envVars == <<taskSets, primaryTaskSets, taskDefRev, liveService, listeners, listenerCfg>>
locVars == <<primaryTargetGroup, canaryTargetGroup, td, prevTaskSets, delIdx,
             taskSet, canaryTargetGroupArn, routingTrafficCfg, currListenerArns,
             modifiedRules>>
obsVars == <<loaded, calls, loggedRules, logModifiedCalls, metaReads, sampled>>
vars == <<inVars, sigVars, envVars, locVars, obsVars, pc, status, result>>

\* ---------------------------------------------------------------------
\* Helpers
\* ---------------------------------------------------------------------
RECURSIVE Perms(_)
Perms(S) ==
    IF S = {} THEN {<<>>}
    ELSE UNION {{<<x>> \o p : p \in Perms(S \ {x})} : x \in S}

Range(s) == {s[i] : i \in 1..Len(s)}

NoCfg == <<>>

NoTaskSet == [id |-> 0, td |-> 0, tg |-> Nil, scale |-> 0]

\* ---------------------------------------------------------------------
\* Stop Signal
\* ---------------------------------------------------------------------
Fired == sigState \in {"cancelled", "timedout"}

\* sig.Signal(): the reason observed so far.
Signal(s) ==
    CASE s = "cancelled" -> "cancel"
      [] s = "timedout" -> "timeout"
      [] OTHER -> "none"

\* The signal of a stage that finished before it fired is consumed.
Consume(s) == IF s = "active" THEN "consumed" ELSE s

DetermineStageStatus(sig, ori, got) ==
    IF sig \in {"cancel", "timeout"} THEN STAGE_CANCELLED ELSE got

\* ---------------------------------------------------------------------
\* Platform Client: outcome of one remote call
\* ---------------------------------------------------------------------
Outcomes == IF Fired THEN {"cancelled"} ELSE {"ok", "error"}

Call(op, arg, res) == [op |-> op, arg |-> arg, res |-> res]

Fatal(c) == c.res \in {"error", "cancelled"}

\* ---------------------------------------------------------------------
\* Init
\* ---------------------------------------------------------------------
Deployments == 1..MaxDeployments
PipelineStages == 1..MaxPipelineStages
MetaKeys == {canaryTargetGroupArnKey, "other-key"}
MetaValues == {CanaryArn, StoredCanaryArn}

\* No deployment has started a stage.
EngineIdle ==
    engStatus = [d \in Deployments |-> [i \in PipelineStages |-> STAGE_NOT_STARTED_YET]]

\* No get has been made.
NoGet == [key |-> Nil, res |-> [value |-> "", ok |-> FALSE], stage |-> 0,
          seen |-> 0]

\* An empty shared partition, first stage executing.
MetadataIdle ==
    /\ metaStore = [k \in MetaKeys |-> Nil]
    /\ metaWrites = <<>>
    /\ metaStage = 1
    /\ metaGot = NoGet

\* BuildPipelineSyncStages has not returned.
NoResponse == [returned |-> FALSE, Stages |-> <<>>, err |-> Nil]

\* ExecuteStage has not returned.
NoExecute == [returned |-> FALSE, computed |-> Nil, Status |-> Nil, err |-> Nil]

\* FetchDefinedStages has not returned.
NoDefined == [returned |-> FALSE, stages |-> <<>>]

\* No request has been made to the wait plugin.
WaitIdle ==
    /\ waitRequest = <<>>
    /\ waitResponse = NoResponse
    /\ waitExecute = NoExecute
    /\ waitDefined = NoDefined

\* A text node and a field node {{ .encryptedSecrets.K }} of a template.
TextNode(text) == [kind |-> "text", v |-> text]
FieldNode(k) == [kind |-> "field", v |-> k]

\* The map without entries.
EmptyMap == [k \in {} |-> ""]

\* DecryptSecrets has not been called; the directory holds one plain file.
DecryptIdle ==
    /\ decSources = [p \in {"resource.yaml"} |-> <<TextNode("resource-data")>>]
    /\ decEncrypted = EmptyMap
    /\ decTargets = <<>>
    /\ decFiles = [p \in {"resource.yaml"} |-> "resource-data"]
    /\ decRendered = {}
    /\ decData = EmptyMap
    /\ decIdx = 1
    /\ decPc = "DecryptSecrets"
    /\ decErr = Nil

\* PipedRepository{}
ZeroRepository == [RepoID |-> "", Remote |-> "", Branch |-> ""]

\* No repository is configured and nothing has been looked up.
NoRepoGot == [called |-> FALSE, id |-> "", repo |-> ZeroRepository,
              found |-> FALSE]

NoMapGot == [called |-> FALSE, m |-> [k \in {} |-> ZeroRepository]]

RepositoriesIdle ==
    /\ cfgRepositories = <<>>
    /\ cfgRepoGot = NoRepoGot
    /\ cfgMapGot = NoMapGot

\* No cloud provider is configured.
CloudProvidersIdle ==
    /\ cfgCloudProviders = <<>>
    /\ cfgConfigured = <<>>
    /\ cfgAfterFirst = <<>>
    /\ cfgEnableCalls = 0

\* const initialState: DeploymentFrequencyState
initialState ==
    [status |-> "idle", data |-> <<>>, status24h |-> "idle", data24h |-> <<>>]

\* No action has been reduced.
NoAction == [type |-> "@@INIT", payload |-> <<>>, prev |-> initialState]

SliceIdle ==
    /\ sliceState = initialState
    /\ sliceLast = NoAction

\* The dialog before any event: no application to delete, nothing in flight.
NoDialogEvent == [event |-> "none", isDeleting |-> FALSE]

DialogIdle ==
    /\ dlgApplicationId = Nil
    /\ dlgDeleting = FALSE
    /\ dlgInFlight = 0
    /\ dlgLog = <<>>
    /\ dlgLast = NoDialogEvent

\* The LiveStateView before it is mounted.
NoViewEvent == [event |-> "none", selected |-> ""]

LiveStateIdle ==
    /\ lsvAllResources = <<>>
    /\ lsvSelected = ""
    /\ lsvLast = NoViewEvent

Init ==
    /\ EngineIdle
    /\ MetadataIdle
    /\ WaitIdle
    /\ DecryptIdle
    /\ RepositoriesIdle
    /\ CloudProvidersIdle
    /\ SliceIdle /\ DialogIdle /\ LiveStateIdle
    /\ stageName \in StageNames
    /\ originalStatus \in {STAGE_NOT_STARTED_YET, STAGE_RUNNING}
    /\ runningCommitHash \in {"", "c0ffee"}
    /\ sharedMeta \in {Nil, StoredCanaryArn}
    /\ sigState = "active"
    /\ lateStop = Nil
    /\ firedAt = -1
    /\ taskSets \in SUBSET TaskSetIds
    /\ primaryTaskSets \in {S \in SUBSET taskSets : Cardinality(S) <= 1}
    /\ taskDefRev = 1
    /\ liveService \in {"running", "target"}
    /\ listeners \in SUBSET ListenerIds
    /\ listenerCfg = [l \in ListenerIds |-> NoCfg]
    /\ pc = "Execute"
    /\ primaryTargetGroup = Nil
    /\ canaryTargetGroup = Nil
    /\ td = 0
    /\ prevTaskSets = <<>>
    /\ delIdx = 1
    /\ taskSet = NoTaskSet
    /\ canaryTargetGroupArn = ""
    /\ routingTrafficCfg = <<>>
    /\ currListenerArns = {}
    /\ modifiedRules = {}
    /\ status = NoStatus
    /\ loaded = {}
    /\ calls = <<>>
    /\ loggedRules = {}
    /\ logModifiedCalls = 0
    /\ metaReads = 0
    /\ sampled = "unsampled"
    /\ result = NoStatus

\* ---------------------------------------------------------------------
\* Stop requests (external): cancel or timeout of the stage
\* ---------------------------------------------------------------------
Stop(kind) ==
    /\ sigState \in {"active", "consumed"}
    /\ IF sigState = "active"
       THEN /\ sigState' = kind
            /\ firedAt' = Len(calls)
            /\ UNCHANGED lateStop
       ELSE /\ lateStop = Nil
            /\ lateStop' = pc
            /\ UNCHANGED <<sigState, firedAt>>
    /\ UNCHANGED <<inVars, envVars, locVars, obsVars, pc, status, result>>

Cancel == Stop("cancelled")

Timeout == Stop("timedout")

\* ---------------------------------------------------------------------
\* rollbackExecutor.Execute
\* ---------------------------------------------------------------------
ExecuteResultSwapped(sig, ori, got) == DetermineStageStatus(sig, got, ori)

ExecuteResultRaw(sig, ori, got) == got

\* return executor.DetermineStageStatus(sig.Signal(), originalStatus, status)
ExecuteResult(sig, ori, got) == DetermineStageStatus(sig, ori, got)

\* switch model.Stage(e.Stage.Name): case model.StageRollback
Execute_Rollback ==
    /\ pc = "Execute"
    /\ stageName = StageRollback
    /\ pc' = "CheckCommit"
    /\ UNCHANGED <<inVars, sigVars, envVars, locVars, obsVars, status, result>>

ExecuteUnsupportedResultDetermined(sig, ori) ==
    DetermineStageStatus(sig, ori, STAGE_FAILURE)

\* default: e.LogPersister.Errorf("Unsupported stage ..."); return FAILURE
ExecuteUnsupportedResult(sig, ori) == STAGE_FAILURE

\* switch model.Stage(e.Stage.Name): default
Execute_Unsupported ==
    /\ pc = "Execute"
    /\ stageName # StageRollback
    /\ result' = ExecuteUnsupportedResult(Signal(sigState), originalStatus)
    /\ pc' = "done"
    /\ UNCHANGED <<inVars, sigVars, envVars, locVars, obsVars, status>>

\* ensureRollback hands its status back to Execute.
Return(st) ==
    /\ status' = st
    /\ sigState' = Consume(sigState)
    /\ pc' = "Determine"
    /\ UNCHANGED <<lateStop, firedAt>>

Execute_Determine ==
    /\ pc = "Determine"
    /\ sampled' = Signal(sigState)
    /\ result' = ExecuteResult(Signal(sigState), originalStatus, status)
    /\ pc' = "done"
    /\ UNCHANGED <<inVars, sigVars, envVars, locVars, status,
                   loaded, calls, loggedRules, logModifiedCalls, metaReads>>

\* ---------------------------------------------------------------------
\* rollbackExecutor.ensureRollback
\* ---------------------------------------------------------------------
IsFirstDeploymentNever(hash) == FALSE

\* e.Deployment.RunningCommitHash == ""
IsFirstDeployment(hash) == hash = ""

ensureRollback_CheckCommit ==
    /\ pc = "CheckCommit"
    /\ IF IsFirstDeployment(runningCommitHash)
       THEN Return(STAGE_FAILURE)
       ELSE /\ pc' = "GetReadOnly"
            /\ UNCHANGED <<sigVars, status>>
    /\ UNCHANGED <<inVars, envVars, locVars, obsVars, result>>

PrepareIgnoresFailure(here, next) ==
    /\ pc = here
    /\ \E ok \in BOOLEAN :
        /\ loaded' = IF ok THEN loaded \cup {here} ELSE loaded
        /\ pc' = next
        /\ UNCHANGED <<sigVars, status>>
    /\ UNCHANGED <<inVars, envVars, locVars, result,
                   calls, loggedRules, logModifiedCalls, metaReads, sampled>>

\* A preparation step: it either completes and control moves on, or the
\* stage fails.
Prepare(here, next) ==
    /\ pc = here
    /\ \E ok \in BOOLEAN :
        IF ok
        THEN /\ loaded' = loaded \cup {here}
             /\ pc' = next
             /\ UNCHANGED <<sigVars, status>>
        ELSE /\ Return(STAGE_FAILURE)
             /\ UNCHANGED loaded
    /\ UNCHANGED <<inVars, envVars, locVars, result,
                   calls, loggedRules, logModifiedCalls, metaReads, sampled>>

ensureRollback_GetReadOnly == Prepare("GetReadOnly", "ECSApplicationSpec")

ensureRollback_ECSApplicationSpec == Prepare("ECSApplicationSpec", "findPlatformProvider")

ensureRollback_findPlatformProvider == Prepare("findPlatformProvider", "loadTaskDefinition")

ensureRollback_loadTaskDefinition == Prepare("loadTaskDefinition", "loadServiceDefinition")

ensureRollback_loadServiceDefinition == Prepare("loadServiceDefinition", "loadTargetGroups")

ensureRollback_loadTargetGroups ==
    /\ pc = "loadTargetGroups"
    /\ \/ /\ \E p \in {Nil, PrimaryArn}, c \in {Nil, CanaryArn} :
               /\ primaryTargetGroup' = p
               /\ canaryTargetGroup' = c
          /\ loaded' = loaded \cup {"loadTargetGroups"}
          /\ pc' = "Client"
          /\ UNCHANGED <<sigVars, status>>
       \/ /\ Return(STAGE_FAILURE)
          /\ UNCHANGED <<primaryTargetGroup, canaryTargetGroup, loaded>>
    /\ UNCHANGED <<inVars, envVars, result, td, prevTaskSets, delIdx, taskSet,
                   canaryTargetGroupArn, routingTrafficCfg, currListenerArns,
                   modifiedRules, calls, loggedRules, logModifiedCalls,
                   metaReads, sampled>>

Preparations == {"GetReadOnly", "ECSApplicationSpec", "findPlatformProvider",
                 "loadTaskDefinition", "loadServiceDefinition",
                 "loadTargetGroups", "Client"}

ensureRollbackStatusAlwaysSuccess(ok) == STAGE_SUCCESS

\* if !rollback(...) { return FAILURE }; return SUCCESS
ensureRollbackStatus(ok) == IF ok THEN STAGE_SUCCESS ELSE STAGE_FAILURE

\* rollback returns ok to ensureRollback, which returns its status.
RollbackReturn(ok) == Return(ensureRollbackStatus(ok))

\* ---------------------------------------------------------------------
\* rollback
\* ---------------------------------------------------------------------
NeverFailed(res) == FALSE

FailedUnlessCancelled(res) == res = "error"

\* err != nil after a Platform Client call
Failed(res) == res # "ok"

IsFatalTaskSetsErrorStrict(res) == res # "ok"

\* err != nil && !errors.Is(err, platformprovider.ErrNotFound)
IsFatalTaskSetsError(res) == res # "ok" /\ res # "notfound"

\* provider.DefaultRegistry().Client(...)
rollback_Client ==
    /\ pc = "Client"
    /\ \E ok \in BOOLEAN :
        IF ok
        THEN /\ loaded' = loaded \cup {"Client"}
             /\ pc' = "RegisterTaskDefinition"
             /\ UNCHANGED <<sigVars, status>>
        ELSE /\ RollbackReturn(FALSE)
             /\ UNCHANGED loaded
    /\ UNCHANGED <<inVars, envVars, locVars, result,
                   calls, loggedRules, logModifiedCalls, metaReads, sampled>>

\* td, err := client.RegisterTaskDefinition(ctx, taskDefinition)
rollback_RegisterTaskDefinition ==
    /\ pc = "RegisterTaskDefinition"
    /\ \E res \in Outcomes :
        /\ calls' = Append(calls, Call("RegisterTaskDefinition", 0, res))
        /\ IF res = "ok"
           THEN /\ taskDefRev' = taskDefRev + 1
                /\ td' = taskDefRev + 1
           ELSE UNCHANGED <<taskDefRev, td>>
        /\ IF Failed(res)
           THEN RollbackReturn(FALSE)
           ELSE /\ pc' = "applyServiceDefinition"
                /\ UNCHANGED <<sigVars, status>>
    /\ UNCHANGED <<inVars, taskSets, primaryTaskSets, liveService, listeners,
                   listenerCfg, primaryTargetGroup, canaryTargetGroup,
                   prevTaskSets, delIdx, taskSet, canaryTargetGroupArn,
                   routingTrafficCfg, currListenerArns, modifiedRules,
                   loaded, loggedRules, logModifiedCalls, metaReads, sampled,
                   result>>

ApplyServiceDefinitionToggles(live, def) ==
    [service |-> IF live = def THEN "target" ELSE def, ok |-> live # def]

\* Re-applying a service definition: the live service matches the
\* definition afterwards, whatever it matched before.
ApplyServiceDefinition(live, def) == [service |-> def, ok |-> TRUE]

\* service, err := applyServiceDefinition(ctx, client, serviceDefinition)
rollback_applyServiceDefinition ==
    /\ pc = "applyServiceDefinition"
    /\ \E res \in Outcomes :
        /\ calls' = Append(calls, Call("applyServiceDefinition", 0, res))
        /\ liveService' = IF res = "ok"
                        THEN ApplyServiceDefinition(liveService, "running").service
                        ELSE liveService
        /\ IF Failed(res)
           THEN RollbackReturn(FALSE)
           ELSE /\ pc' = "GetServiceTaskSets"
                /\ UNCHANGED <<sigVars, status>>
    /\ UNCHANGED <<inVars, taskSets, primaryTaskSets, taskDefRev, listeners,
                   listenerCfg, locVars, loaded, loggedRules,
                   logModifiedCalls, metaReads, sampled, result>>

\* Outcomes of GetServiceTaskSets: the task sets of the service, the
\* distinguished not-found condition when there is none, or an error.
TaskSetsOutcomes ==
    IF Fired THEN {"cancelled"}
    ELSE IF taskSets = {} THEN {"ok", "notfound", "error"}
    ELSE {"ok", "error"}

\* prevTaskSets, err := client.GetServiceTaskSets(ctx, *service)
rollback_GetServiceTaskSets ==
    /\ pc = "GetServiceTaskSets"
    /\ \E res \in TaskSetsOutcomes :
        /\ calls' = Append(calls, Call("GetServiceTaskSets", 0, res))
        /\ IF res = "ok"
           THEN prevTaskSets' \in Perms(taskSets)
           ELSE prevTaskSets' = <<>>
        /\ IF IsFatalTaskSetsError(res)
           THEN RollbackReturn(FALSE)
           ELSE /\ pc' = "CreateTaskSet"
                /\ UNCHANGED <<sigVars, status>>
    /\ UNCHANGED <<inVars, envVars, primaryTargetGroup, canaryTargetGroup,
                   td, delIdx, taskSet, canaryTargetGroupArn,
                   routingTrafficCfg, currListenerArns, modifiedRules,
                   loaded, loggedRules, logModifiedCalls, metaReads, sampled,
                   result>>

\* On rolling back, the scale of desired tasks will be set to 100.
RollbackScale == 100

NewTaskSetPreviousDefinition(rev, ptg) ==
    [id |-> NewTaskSetId, td |-> rev - 1, tg |-> ptg, scale |-> RollbackScale]

\* The task set CreateTaskSet is asked for: the registered task definition,
\* the primary target group, scale 100.
NewTaskSet(rev, ptg) ==
    [id |-> NewTaskSetId, td |-> rev, tg |-> ptg, scale |-> RollbackScale]

\* taskSet, err := client.CreateTaskSet(ctx, *service, *td, primaryTargetGroup, 100)
rollback_CreateTaskSet ==
    /\ pc = "CreateTaskSet"
    /\ \E res \in Outcomes :
        /\ calls' = Append(calls, Call("CreateTaskSet", 0, res))
        /\ IF res = "ok"
           THEN /\ taskSets' = taskSets \cup {NewTaskSetId}
                /\ taskSet' = NewTaskSet(td, primaryTargetGroup)
           ELSE UNCHANGED <<taskSets, taskSet>>
        /\ IF Failed(res)
           THEN RollbackReturn(FALSE)
           ELSE /\ pc' = "UpdateServicePrimaryTaskSet"
                /\ UNCHANGED <<sigVars, status>>
    /\ UNCHANGED <<inVars, primaryTaskSets, taskDefRev, liveService, listeners,
                   listenerCfg, primaryTargetGroup, canaryTargetGroup, td,
                   prevTaskSets, delIdx, canaryTargetGroupArn,
                   routingTrafficCfg, currListenerArns, modifiedRules,
                   loaded, loggedRules, logModifiedCalls, metaReads, sampled,
                   result>>

StepAfterPromoteAlwaysELB(ptg) == "rollbackELB"

StepAfterPromoteNeverELB(ptg) == "DeleteTaskSet"

\* if primaryTargetGroup != nil { rollbackELB(...) }
StepAfterPromote(ptg) == IF ptg # Nil THEN "rollbackELB" ELSE "DeleteTaskSet"

PromoteKeepsOthers(prims, ts) == prims \cup {ts}

\* UpdateServicePrimaryTaskSet marks the given task set as the one serving
\* production traffic, atomically replacing the previous PRIMARY.
Promote(prims, ts) == {ts}

\* client.UpdateServicePrimaryTaskSet(ctx, *service, *taskSet)
rollback_UpdateServicePrimaryTaskSet ==
    /\ pc = "UpdateServicePrimaryTaskSet"
    /\ \E res \in Outcomes :
        /\ calls' = Append(calls, Call("UpdateServicePrimaryTaskSet", taskSet.id, res))
        /\ primaryTaskSets' = IF res = "ok"
                            THEN Promote(primaryTaskSets, taskSet.id)
                            ELSE primaryTaskSets
        /\ IF Failed(res)
           THEN RollbackReturn(FALSE)
           ELSE /\ pc' = StepAfterPromote(primaryTargetGroup)
                /\ UNCHANGED <<sigVars, status>>
    /\ UNCHANGED <<inVars, taskSets, taskDefRev, liveService, listeners,
                   listenerCfg, locVars, loaded, loggedRules,
                   logModifiedCalls, metaReads, sampled, result>>

DeleteTargetFirst(prev, i) == prev[1]

\* for _, ts := range prevTaskSets
DeleteTarget(prev, i) == prev[i]

DeleteFailureContinues(res) == FALSE

DeleteFailureIgnoresError(res) == res = "cancelled"

\* if err := client.DeleteTaskSet(ctx, *ts); err != nil { return false }
DeleteFailureAborts(res) == res # "ok"

\* One iteration of the deletion loop.
rollback_DeleteTaskSet ==
    /\ pc = "DeleteTaskSet"
    /\ delIdx <= Len(prevTaskSets)
    /\ LET ts == DeleteTarget(prevTaskSets, delIdx) IN
       \E res \in Outcomes :
        /\ calls' = Append(calls, Call("DeleteTaskSet", ts, res))
        /\ IF res = "ok"
           THEN /\ taskSets' = taskSets \ {ts}
                /\ primaryTaskSets' = primaryTaskSets \ {ts}
           ELSE UNCHANGED <<taskSets, primaryTaskSets>>
        /\ IF DeleteFailureAborts(res)
           THEN /\ RollbackReturn(FALSE)
                /\ UNCHANGED delIdx
           ELSE /\ delIdx' = delIdx + 1
                /\ UNCHANGED <<pc, sigVars, status>>
    /\ UNCHANGED <<inVars, taskDefRev, liveService, listeners, listenerCfg,
                   primaryTargetGroup, canaryTargetGroup, td, prevTaskSets,
                   taskSet, canaryTargetGroupArn, routingTrafficCfg,
                   currListenerArns, modifiedRules, loaded, loggedRules,
                   logModifiedCalls, metaReads, sampled, result>>

\* The loop is over: "Rolled back the ECS service ..."; return true
rollback_Done ==
    /\ pc = "DeleteTaskSet"
    /\ delIdx > Len(prevTaskSets)
    /\ RollbackReturn(TRUE)
    /\ UNCHANGED <<inVars, envVars, locVars, obsVars, result>>

\* ---------------------------------------------------------------------
\* rollbackELB
\* ---------------------------------------------------------------------
RoutingTrafficConfigSwapped(primaryArn, canaryArn) ==
    << [TargetGroupArn |-> primaryArn, Weight |-> 0],
       [TargetGroupArn |-> canaryArn, Weight |-> 100] >>

\* routingTrafficCfg := provider.RoutingTrafficConfig{{primary, 100}, {canary, 0}}
RoutingTrafficConfig(primaryArn, canaryArn) ==
    << [TargetGroupArn |-> primaryArn, Weight |-> 100],
       [TargetGroupArn |-> canaryArn, Weight |-> 0] >>

\* in.MetadataStore.Shared().Get(canaryTargetGroupArnKey)
SharedGet(store) == [value |-> IF store = Nil THEN "" ELSE store,
                     ok |-> store # Nil]

CanaryFromMetadataAlways(ctg) == TRUE

\* if canaryTargetGroup == nil
CanaryFromMetadata(ctg) == ctg = Nil

rollbackELBSkipResultFalse == FALSE

\* "Skip rolling back ELB listeners ...": return true
rollbackELBSkipResult == TRUE

\* Determine the canary target group and build the routing configuration.
rollbackELB_CanaryTargetGroup ==
    /\ pc = "rollbackELB"
    /\ IF CanaryFromMetadata(canaryTargetGroup)
       THEN /\ metaReads' = metaReads + 1
            /\ LET got == SharedGet(sharedMeta) IN
               IF ~got.ok
               THEN /\ IF rollbackELBSkipResult
                       THEN /\ pc' = "DeleteTaskSet"
                            /\ UNCHANGED <<sigVars, status>>
                       ELSE RollbackReturn(FALSE)
                    /\ UNCHANGED <<canaryTargetGroupArn, routingTrafficCfg>>
               ELSE /\ canaryTargetGroupArn' = got.value
                    /\ routingTrafficCfg' =
                         RoutingTrafficConfig(primaryTargetGroup, got.value)
                    /\ pc' = "GetListenerArns"
                    /\ UNCHANGED <<sigVars, status>>
       ELSE /\ canaryTargetGroupArn' = canaryTargetGroup
            /\ routingTrafficCfg' =
                 RoutingTrafficConfig(primaryTargetGroup, canaryTargetGroup)
            /\ pc' = "GetListenerArns"
            /\ UNCHANGED <<metaReads, sigVars, status>>
    /\ UNCHANGED <<inVars, envVars, primaryTargetGroup,
                   canaryTargetGroup, td, prevTaskSets, delIdx, taskSet,
                   currListenerArns, modifiedRules, loaded, calls,
                   loggedRules, logModifiedCalls, sampled, result>>

\* currListenerArns, err := client.GetListenerArns(ctx, *primaryTargetGroup)
rollbackELB_GetListenerArns ==
    /\ pc = "GetListenerArns"
    /\ \E res \in Outcomes :
        /\ calls' = Append(calls, Call("GetListenerArns", 0, res))
        /\ currListenerArns' = IF res = "ok" THEN listeners ELSE {}
        /\ IF Failed(res)
           THEN RollbackReturn(FALSE)
           ELSE /\ pc' = "ModifyListeners"
                /\ UNCHANGED <<sigVars, status>>
    /\ UNCHANGED <<inVars, envVars, primaryTargetGroup, canaryTargetGroup,
                   td, prevTaskSets, delIdx, taskSet, canaryTargetGroupArn,
                   routingTrafficCfg, modifiedRules, loaded, loggedRules,
                   logModifiedCalls, metaReads, sampled, result>>

RulesLoggedOnErrorNone(rules) == {}

\* if len(modifiedRules) > 0 { logModifiedRules(in.LogPersister, modifiedRules) }
RulesLoggedOnError(rules) == IF Cardinality(rules) > 0 THEN rules ELSE {}

\* modifiedRules, err := client.ModifyListeners(ctx, currListenerArns, routingTrafficCfg)
\* A failing call may have modified any part of the listeners before failing.
rollbackELB_ModifyListeners ==
    /\ pc = "ModifyListeners"
    /\ \E res \in Outcomes :
       \E done \in (IF res = "ok" THEN {currListenerArns}
                    ELSE SUBSET currListenerArns) :
        /\ calls' = Append(calls, Call("ModifyListeners", 0, res))
        /\ modifiedRules' = done
        /\ listenerCfg' = [l \in ListenerIds |->
                             IF l \in done THEN routingTrafficCfg
                             ELSE listenerCfg[l]]
        /\ IF Failed(res)
           THEN /\ loggedRules' = loggedRules \cup RulesLoggedOnError(done)
                /\ logModifiedCalls' =
                     IF RulesLoggedOnError(done) # {}
                     THEN logModifiedCalls + 1 ELSE logModifiedCalls
                /\ RollbackReturn(FALSE)
           ELSE /\ loggedRules' = loggedRules \cup done
                /\ logModifiedCalls' = logModifiedCalls + 1
                /\ pc' = "DeleteTaskSet"
                /\ UNCHANGED <<sigVars, status>>
    /\ UNCHANGED <<inVars, taskSets, primaryTaskSets, taskDefRev, liveService,
                   listeners, primaryTargetGroup, canaryTargetGroup, td,
                   prevTaskSets, delIdx, taskSet, canaryTargetGroupArn,
                   routingTrafficCfg, currListenerArns, loaded, metaReads,
                   sampled, result>>

\* ---------------------------------------------------------------------
\* Specification
\* ---------------------------------------------------------------------
Next ==
    \/ Cancel
    \/ Timeout
    \/ Execute_Rollback
    \/ Execute_Unsupported
    \/ Execute_Determine
    \/ ensureRollback_CheckCommit
    \/ ensureRollback_GetReadOnly
    \/ ensureRollback_ECSApplicationSpec
    \/ ensureRollback_findPlatformProvider
    \/ ensureRollback_loadTaskDefinition
    \/ ensureRollback_loadServiceDefinition
    \/ ensureRollback_loadTargetGroups
    \/ rollback_Client
    \/ rollback_RegisterTaskDefinition
    \/ rollback_applyServiceDefinition
    \/ rollback_GetServiceTaskSets
    \/ rollback_CreateTaskSet
    \/ rollback_UpdateServicePrimaryTaskSet
    \/ rollbackELB_CanaryTargetGroup
    \/ rollbackELB_GetListenerArns
    \/ rollbackELB_ModifyListeners
    \/ rollback_DeleteTaskSet
    \/ rollback_Done

Spec == Init /\ [][Next]_vars

TypeOK ==
    /\ pc \in {"Execute", "CheckCommit", "Determine", "done", "Client",
               "RegisterTaskDefinition", "applyServiceDefinition",
               "GetServiceTaskSets", "CreateTaskSet",
               "UpdateServicePrimaryTaskSet", "rollbackELB",
               "GetListenerArns", "ModifyListeners", "DeleteTaskSet"}
              \cup Preparations
    /\ status \in {NoStatus, STAGE_SUCCESS, STAGE_FAILURE}
    /\ result \in {NoStatus, STAGE_SUCCESS, STAGE_FAILURE, STAGE_CANCELLED}
    /\ sigState \in {"active", "cancelled", "timedout", "consumed"}

\* ---------------------------------------------------------------------
\* Properties
\* ---------------------------------------------------------------------
Ops(op) == {i \in 1..Len(calls) : calls[i].op = op}

Invoked(op) == Ops(op) # {}

Returned == status # NoStatus

\* Position of each Platform Client operation in the rollback algorithm.
Rank(op) ==
    CASE op = "RegisterTaskDefinition" -> 1
      [] op = "applyServiceDefinition" -> 2
      [] op = "GetServiceTaskSets" -> 3
      [] op = "CreateTaskSet" -> 4
      [] op = "UpdateServicePrimaryTaskSet" -> 5
      [] op = "GetListenerArns" -> 6
      [] op = "ModifyListeners" -> 7
      [] op = "DeleteTaskSet" -> 8

\* Operations that may directly follow the operation of rank r.
Successors(r) ==
    CASE r \in 1..4 -> {r + 1}
      [] r = 5 -> {6, 8}
      [] r = 6 -> {7}
      [] r = 7 -> {8}
      [] r = 8 -> {8}

\* C1: with an empty RunningCommitHash the ROLLBACK stage never invokes a
\* Platform Client operation, and the raw status it yields is FAILURE.
C1_FirstDeploymentFailsWithoutCalls ==
    runningCommitHash = "" =>
        /\ calls = <<>>
        /\ Returned => status = STAGE_FAILURE

C1_Witness ==
    /\ stageName = StageRollback
    /\ runningCommitHash = ""
    /\ status = STAGE_FAILURE
    /\ pc = "done"

\* C2: the Platform Client calls of one execution start with
\* RegisterTaskDefinition and follow the order of the algorithm (listener
\* calls optional, DeleteTaskSet repeated), and a call that returned a
\* fatal error is the last call issued.
C2_CallsInOrderAbortAtFirstFailure ==
    /\ Len(calls) > 0 => calls[1].op = "RegisterTaskDefinition"
    /\ \A i \in 1..Len(calls) :
        /\ calls[i].op \in PlatformOps
        /\ i < Len(calls) =>
            /\ ~Fatal(calls[i])
            /\ Rank(calls[i + 1].op) \in Successors(Rank(calls[i].op))

C2_Witness ==
    /\ pc = "done"
    /\ Invoked("ModifyListeners")
    /\ Len(calls) >= 9
    /\ calls[Len(calls)].op = "DeleteTaskSet"
    /\ Fatal(calls[Len(calls)])
    /\ status = STAGE_FAILURE

C4_StopRequestedGivesCancelled ==
    (/\ sampled \in {"cancel", "timeout"}
     /\ ~(status = STAGE_SUCCESS /\ sigState = "consumed"))
        => result = STAGE_CANCELLED

C4_Witness ==
    /\ sampled = "timeout"
    /\ status = STAGE_FAILURE
    /\ result = STAGE_CANCELLED

\* C5: a not-found GetServiceTaskSets is followed by CreateTaskSet with an
\* empty snapshot, so DeleteTaskSet is never invoked, and the stage is
\* SUCCESS once it returns with every later call successful; any other
\* GetServiceTaskSets error ends the calls there with FAILURE.
C5_NotFoundIsEmptySnapshot ==
    \A i \in Ops("GetServiceTaskSets") :
        /\ calls[i].res = "notfound" =>
            /\ prevTaskSets = <<>>
            /\ ~Invoked("DeleteTaskSet")
            /\ IF i < Len(calls)
               THEN calls[i + 1].op = "CreateTaskSet"
               ELSE pc = "CreateTaskSet"
            /\ (Returned /\ \A j \in (i + 1)..Len(calls) : calls[j].res = "ok")
                   => status = STAGE_SUCCESS
        /\ calls[i].res \in {"error", "cancelled"} =>
            /\ i = Len(calls)
            /\ ~Invoked("CreateTaskSet")
            /\ status = STAGE_FAILURE

C5_Witness ==
    /\ \E i \in Ops("GetServiceTaskSets") : calls[i].res = "notfound"
    /\ Invoked("ModifyListeners")
    /\ status = STAGE_SUCCESS
    /\ result = STAGE_SUCCESS

\* C6: after a successful rollback that modified the listeners, every
\* listener of the primary group carries weight 100 for the primary target
\* group and weight 0 for the canary target group, 100 in total.
C6_PrimaryHundredCanaryZero ==
    (status = STAGE_SUCCESS /\ Invoked("ModifyListeners")) =>
        \A l \in listeners :
            /\ Len(listenerCfg[l]) = 2
            /\ listenerCfg[l][1].TargetGroupArn = primaryTargetGroup
            /\ listenerCfg[l][1].Weight = 100
            /\ listenerCfg[l][2].TargetGroupArn = canaryTargetGroupArn
            /\ listenerCfg[l][2].Weight = 0
            /\ listenerCfg[l][1].Weight + listenerCfg[l][2].Weight = 100

C6_Witness ==
    /\ status = STAGE_SUCCESS
    /\ Invoked("ModifyListeners")
    /\ Cardinality(listeners) = MaxListeners
    /\ canaryTargetGroupArn = StoredCanaryArn

\* C7: when ModifyListeners fails after modifying some rules, the raw
\* status is FAILURE, the rules handed to the log are exactly the rules
\* that were modified, and ModifyListeners is the last call (no
\* DeleteTaskSet follows).
C7_PartialModificationReported ==
    \A i \in Ops("ModifyListeners") :
        Fatal(calls[i]) =>
            /\ status = STAGE_FAILURE
            /\ modifiedRules = {l \in ListenerIds : listenerCfg[l] # NoCfg}
            /\ loggedRules = modifiedRules
            /\ i = Len(calls)
            /\ ~Invoked("DeleteTaskSet")

C7_Witness ==
    /\ \E i \in Ops("ModifyListeners") : calls[i].res = "error"
    /\ Cardinality(currListenerArns) = 2
    /\ Cardinality(modifiedRules) = 1
    /\ loggedRules = modifiedRules
    /\ result = STAGE_FAILURE

\* The deployment's listener reconciliation applies: a primary target group
\* exists and the canary target group is known from either source.
ReconciliationApplies ==
    /\ primaryTargetGroup # Nil
    /\ canaryTargetGroup # Nil \/ sharedMeta # Nil

Succeeded(op) == \E i \in Ops(op) : ~Fatal(calls[i])

DeletedOk == {calls[i].arg : i \in {j \in Ops("DeleteTaskSet") : calls[j].res = "ok"}}

\* Every step of the algorithm that applies to the deployment completed.
AllStepsCompleted ==
    /\ runningCommitHash # ""
    /\ loaded = Preparations
    /\ \A i \in 1..Len(calls) : ~Fatal(calls[i])
    /\ \A op \in {"RegisterTaskDefinition", "applyServiceDefinition",
                  "GetServiceTaskSets", "CreateTaskSet",
                  "UpdateServicePrimaryTaskSet"} : Succeeded(op)
    /\ IF ReconciliationApplies
       THEN Succeeded("GetListenerArns") /\ Succeeded("ModifyListeners")
       ELSE ~Invoked("GetListenerArns") /\ ~Invoked("ModifyListeners")
    /\ DeletedOk = Range(prevTaskSets)

\* C8: the raw status of the rollback stage is SUCCESS exactly when every
\* applicable step completed without error, and FAILURE otherwise.
C8_SuccessIffEveryStepCompleted ==
    Returned =>
        /\ status \in {STAGE_SUCCESS, STAGE_FAILURE}
        /\ status = STAGE_SUCCESS <=> AllStepsCompleted

C8_Witness ==
    /\ status = STAGE_SUCCESS
    /\ Invoked("ModifyListeners")
    /\ Len(prevTaskSets) >= 2
    /\ result = STAGE_SUCCESS

NoRetry ==
    /\ \A op \in PlatformOps \ {"DeleteTaskSet"} : Cardinality(Ops(op)) <= 1
    /\ \A i \in Ops("DeleteTaskSet") :
        /\ calls[i].arg \in Range(prevTaskSets)
        /\ \A j \in Ops("DeleteTaskSet") : calls[j].arg = calls[i].arg => j = i

\* C9: no Platform Client operation is retried within one execution (each
\* at most once, DeleteTaskSet at most once per snapshotted task set), and a
\* terminal status, raw or returned, never changes afterwards.
C9_NoRetryTerminalIsFinal ==
    /\ []NoRetry
    /\ [][/\ status # NoStatus => status' = status
          /\ result # NoStatus => result' = result]_vars

C9_Witness ==
    /\ pc = "done"
    /\ Cardinality(Ops("DeleteTaskSet")) >= 2
    /\ lateStop = "done"
    /\ result = STAGE_FAILURE

\* C10: the first failing DeleteTaskSet is the last call of the execution
\* and makes the stage FAILURE; the task sets deleted before it are gone,
\* the snapshotted task sets after it are not attempted and still exist.
C10_DeleteFailureStopsLoop ==
    \A i \in Ops("DeleteTaskSet") :
        Fatal(calls[i]) =>
            /\ i = Len(calls)
            /\ status = STAGE_FAILURE
            /\ calls[i].arg = prevTaskSets[delIdx]
            /\ \A k \in 1..(delIdx - 1) :
                /\ prevTaskSets[k] \in DeletedOk
                /\ prevTaskSets[k] \notin taskSets
            /\ \A k \in delIdx..Len(prevTaskSets) :
                /\ prevTaskSets[k] \notin DeletedOk
                /\ prevTaskSets[k] \in taskSets
            /\ \A k \in (delIdx + 1)..Len(prevTaskSets) :
                \A j \in Ops("DeleteTaskSet") : calls[j].arg # prevTaskSets[k]
            /\ primaryTaskSets = {taskSet.id}
            /\ taskSet.id \in taskSets

C10_Witness ==
    /\ Len(prevTaskSets) = 3
    /\ delIdx = 2
    /\ \E i \in Ops("DeleteTaskSet") : calls[i].res = "error"
    /\ result = STAGE_FAILURE

\* Preparation steps of ensureRollback that load the rollback inputs.
InputLoads == {"GetReadOnly", "ECSApplicationSpec", "findPlatformProvider",
               "loadTaskDefinition", "loadServiceDefinition",
               "loadTargetGroups"}

OpSeq == [i \in 1..Len(calls) |-> calls[i].op]

\* C11: when ensureRollback returns with a known prior commit but without
\* having loaded every rollback input, the raw status is FAILURE and no
\* Platform Client call was issued.
C11_LoadFailureFailsWithoutCalls ==
    (Returned /\ runningCommitHash # "" /\ ~(InputLoads \subseteq loaded)) =>
        /\ status = STAGE_FAILURE
        /\ calls = <<>>

C11_Witness ==
    /\ Returned
    /\ runningCommitHash # ""
    /\ loaded = {"GetReadOnly", "ECSApplicationSpec", "findPlatformProvider"}
    /\ result = STAGE_FAILURE

\* C12: once the Stop Signal has fired, at most one more Platform Client
\* call is issued; that call returns a cancellation error, and no
\* DeleteTaskSet follows a cancellation observed up to listener
\* reconciliation.
C12_NoCallAfterCancellation ==
    firedAt # -1 =>
        /\ Len(calls) <= firedAt + 1
        /\ Len(calls) = firedAt + 1 =>
            /\ calls[Len(calls)].res = "cancelled"
            /\ Returned \/ pc \in {"Determine", "done"}
            /\ status = STAGE_FAILURE
        /\ \A i \in 1..Len(calls) :
            calls[i].res = "cancelled" => i = Len(calls)

C12_Witness ==
    /\ firedAt = 6
    /\ Len(calls) = 7
    /\ calls[7].op = "ModifyListeners"
    /\ calls[7].res = "cancelled"
    /\ pc = "done"
    /\ Len(prevTaskSets) >= 1
    /\ result = STAGE_CANCELLED

\* C13 (scenario A): without a primary target group the rollback never
\* calls GetListenerArns or ModifyListeners and never reads the metadata
\* store; with one prior task set and every call succeeding it ends
\* SUCCESS after exactly register, apply, snapshot, create, promote and
\* one DeleteTaskSet.
C13_NoTargetGroupSkipsReconciliation ==
    (runningCommitHash # "" /\ primaryTargetGroup = Nil) =>
        /\ ~Invoked("GetListenerArns")
        /\ ~Invoked("ModifyListeners")
        /\ metaReads = 0
        /\ (/\ Returned
            /\ Len(prevTaskSets) = 1
            /\ Len(calls) >= 5
            /\ \A i \in 1..Len(calls) : calls[i].res = "ok")
             => /\ status = STAGE_SUCCESS
                /\ OpSeq = <<"RegisterTaskDefinition", "applyServiceDefinition",
                             "GetServiceTaskSets", "CreateTaskSet",
                             "UpdateServicePrimaryTaskSet", "DeleteTaskSet">>
                /\ calls[6].arg = prevTaskSets[1]

C13_Witness ==
    /\ "loadTargetGroups" \in loaded
    /\ primaryTargetGroup = Nil
    /\ sharedMeta = StoredCanaryArn
    /\ Len(prevTaskSets) = 1
    /\ Len(calls) = 6
    /\ status = STAGE_SUCCESS
    /\ result = STAGE_SUCCESS

\* C14 (scenario B): when the prior commit's configuration has a canary
\* target group, the metadata store is never read and the reconciliation
\* uses that group's identifier as the weight-0 entry.
C14_CanaryFromConfigNoMetadataRead ==
    canaryTargetGroup # Nil =>
        /\ metaReads = 0
        /\ routingTrafficCfg # <<>> =>
            routingTrafficCfg =
                << [TargetGroupArn |-> primaryTargetGroup, Weight |-> 100],
                   [TargetGroupArn |-> canaryTargetGroup, Weight |-> 0] >>
        /\ \A l \in modifiedRules : listenerCfg[l] = routingTrafficCfg
        /\ Invoked("GetListenerArns") => routingTrafficCfg # <<>>

C14_Witness ==
    /\ canaryTargetGroup = CanaryArn
    /\ sharedMeta = StoredCanaryArn
    /\ Succeeded("ModifyListeners")
    /\ modifiedRules # {}
    /\ status = STAGE_SUCCESS

\* The canary lookup of rollbackELB has been executed.
LookupDone ==
    /\ Succeeded("UpdateServicePrimaryTaskSet")
    /\ pc \notin {"UpdateServicePrimaryTaskSet", "rollbackELB"}

\* C15 (scenario C): with a primary target group and no canary group in the
\* prior configuration, the canary identifier is read once from the shared
\* metadata store; when stored it is the weight-0 entry, when absent no
\* listener call is made and the stage goes on to delete the snapshot,
\* ending SUCCESS when every call succeeded.
C15_CanaryFromMetadataOrSkip ==
    (primaryTargetGroup # Nil /\ canaryTargetGroup = Nil /\ LookupDone) =>
        /\ metaReads = 1
        /\ IF sharedMeta # Nil
           THEN /\ routingTrafficCfg =
                    << [TargetGroupArn |-> primaryTargetGroup, Weight |-> 100],
                       [TargetGroupArn |-> sharedMeta, Weight |-> 0] >>
                /\ Invoked("GetListenerArns") \/ pc = "GetListenerArns"
           ELSE /\ ~Invoked("GetListenerArns")
                /\ ~Invoked("ModifyListeners")
                /\ pc = "DeleteTaskSet" \/ Invoked("DeleteTaskSet") \/ Returned
                /\ (Returned /\ \A i \in 1..Len(calls) : calls[i].res = "ok")
                      => /\ status = STAGE_SUCCESS
                         /\ DeletedOk = Range(prevTaskSets)

C15_Witness ==
    /\ primaryTargetGroup # Nil
    /\ canaryTargetGroup = Nil
    /\ sharedMeta = Nil
    /\ metaReads = 1
    /\ Len(prevTaskSets) >= 1
    /\ DeletedOk = Range(prevTaskSets)
    /\ status = STAGE_SUCCESS

\* C16: in every state of an execution at most one task set of the
\* service is marked PRIMARY, and after the promotion it is the new one.
C16_AtMostOnePrimary ==
    /\ Cardinality(primaryTaskSets) <= 1
    /\ primaryTaskSets \subseteq taskSets
    /\ Succeeded("UpdateServicePrimaryTaskSet") => primaryTaskSets = {taskSet.id}

C16_Witness ==
    /\ Succeeded("UpdateServicePrimaryTaskSet")
    /\ primaryTaskSets = {NewTaskSetId}
    /\ Cardinality(taskSets) >= 3
    /\ \E i \in Ops("DeleteTaskSet") : calls[i].res = "cancelled"

BeforeDeletion ==
    {i \in 1..Len(calls) : \A j \in Ops("DeleteTaskSet") : i < j}

\* C24: a DeleteTaskSet is issued only after CreateTaskSet and
\* UpdateServicePrimaryTaskSet succeeded and, with a primary target group,
\* after ModifyListeners succeeded or the reconciliation was skipped for
\* want of a canary target group; once the snapshot held a task set the
\* service is never without one.
C24_NoDeleteBeforeReplacementServes ==
    /\ Invoked("DeleteTaskSet") =>
        /\ \E i \in BeforeDeletion :
              calls[i].op = "CreateTaskSet" /\ calls[i].res = "ok"
        /\ \E i \in BeforeDeletion :
              calls[i].op = "UpdateServicePrimaryTaskSet" /\ calls[i].res = "ok"
        /\ primaryTaskSets = {NewTaskSetId}
        /\ NewTaskSetId \in taskSets
        /\ primaryTargetGroup # Nil =>
            \/ \E i \in BeforeDeletion :
                  calls[i].op = "ModifyListeners" /\ calls[i].res = "ok"
            \/ /\ canaryTargetGroup = Nil
               /\ sharedMeta = Nil
               /\ metaReads = 1
               /\ ~Invoked("GetListenerArns")
    /\ prevTaskSets # <<>> => taskSets # {}

C24_Witness ==
    /\ pc = "DeleteTaskSet"
    /\ primaryTargetGroup # Nil
    /\ Succeeded("ModifyListeners")
    /\ Len(prevTaskSets) = 2
    /\ delIdx = 2
    /\ taskSets = {prevTaskSets[2], NewTaskSetId}

C26_SuccessLeavesOnlyNewTaskSet ==
    status = STAGE_SUCCESS =>
        /\ taskSets = {NewTaskSetId}
        /\ primaryTaskSets = {NewTaskSetId}
        /\ taskSet.id = NewTaskSetId
        /\ taskSet.td = taskDefRev
        /\ taskDefRev = 2
        /\ taskSet.tg = primaryTargetGroup
        /\ taskSet.scale = 100
        /\ DeletedOk = Range(prevTaskSets)
        /\ NewTaskSetId \notin Range(prevTaskSets)
        /\ \A j \in Ops("DeleteTaskSet") : calls[j].arg # NewTaskSetId

C26_Witness ==
    /\ status = STAGE_SUCCESS
    /\ result = STAGE_SUCCESS
    /\ Len(prevTaskSets) = 3
    /\ primaryTargetGroup = PrimaryArn
    /\ taskSets = {NewTaskSetId}

\* C27: for a stage that is not ROLLBACK, Execute returns FAILURE without
\* a Platform Client call, a preparation step or a sample of the Stop
\* Signal, whatever the signal and the original status are.
C27_UnsupportedStageFails ==
    stageName # StageRollback =>
        /\ calls = <<>>
        /\ loaded = {}
        /\ metaReads = 0
        /\ sampled = "unsampled"
        /\ status = NoStatus
        /\ pc \in {"Execute", "done"}
        /\ pc = "done" => result = STAGE_FAILURE

C27_Witness ==
    /\ stageName = "ECS_SYNC"
    /\ originalStatus = STAGE_RUNNING
    /\ sigState = "timedout"
    /\ firedAt = 0
    /\ pc = "done"
    /\ result = STAGE_FAILURE

\* ---------------------------------------------------------------------
\* The other components run while no rollback stage is being executed.
\* ---------------------------------------------------------------------
rollbackVars == <<stageName, originalStatus, runningCommitHash, sharedMeta,
                  sigVars, envVars, locVars, obsVars, pc, status, result>>

RollbackIdle ==
    /\ stageName = StageRollback
    /\ originalStatus = STAGE_NOT_STARTED_YET
    /\ runningCommitHash = ""
    /\ sharedMeta = Nil
    /\ sigState = "active"
    /\ lateStop = Nil
    /\ firedAt = -1
    /\ taskSets = {}
    /\ primaryTaskSets = {}
    /\ taskDefRev = 1
    /\ liveService = "running"
    /\ listeners = {}
    /\ listenerCfg = [l \in ListenerIds |-> NoCfg]
    /\ pc = "Execute"
    /\ primaryTargetGroup = Nil
    /\ canaryTargetGroup = Nil
    /\ td = 0
    /\ prevTaskSets = <<>>
    /\ delIdx = 1
    /\ taskSet = NoTaskSet
    /\ canaryTargetGroupArn = ""
    /\ routingTrafficCfg = <<>>
    /\ currListenerArns = {}
    /\ modifiedRules = {}
    /\ status = NoStatus
    /\ loaded = {}
    /\ calls = <<>>
    /\ loggedRules = {}
    /\ logModifiedCalls = 0
    /\ metaReads = 0
    /\ sampled = "unsampled"
    /\ result = NoStatus

\* ---------------------------------------------------------------------
\* Pipeline Engine: one thread of control per deployment
\* ---------------------------------------------------------------------
TerminalStatuses == {STAGE_SUCCESS, STAGE_FAILURE, STAGE_CANCELLED}

CanStartAnyTime(st, i) == st[i] = STAGE_NOT_STARTED_YET

\* A stage starts when it has not started and every earlier stage of the
\* deployment has reached a terminal status.
CanStart(st, i) ==
    /\ st[i] = STAGE_NOT_STARTED_YET
    /\ \A j \in 1..(i - 1) : st[j] \in TerminalStatuses

Engine_StartStage ==
    /\ \E d \in Deployments, i \in PipelineStages :
        /\ CanStart(engStatus[d], i)
        /\ engStatus' = [engStatus EXCEPT ![d][i] = STAGE_RUNNING]
    /\ UNCHANGED <<rollbackVars, dlgVars, lsvVars, decVars, repoVars, cpVars, sliceVars,
                   metaVars, waitVars>>

Engine_FinishStage ==
    /\ \E d \in Deployments, i \in PipelineStages, t \in TerminalStatuses :
        /\ engStatus[d][i] = STAGE_RUNNING
        /\ engStatus' = [engStatus EXCEPT ![d][i] = t]
    /\ UNCHANGED <<rollbackVars, dlgVars, lsvVars, decVars, repoVars, cpVars, sliceVars,
                   metaVars, waitVars>>

InitEngine ==
    /\ RollbackIdle /\ EngineIdle /\ MetadataIdle /\ WaitIdle /\ DecryptIdle
    /\ RepositoriesIdle /\ CloudProvidersIdle /\ SliceIdle /\ DialogIdle /\ LiveStateIdle

NextEngine ==
    \/ Engine_StartStage
    \/ Engine_FinishStage

SpecEngine == InitEngine /\ [][NextEngine]_vars

Running(d) == {i \in PipelineStages : engStatus[d][i] = STAGE_RUNNING}

\* C17: within one deployment at most one stage is RUNNING and a stage has
\* left NOT_STARTED only if the stage before it is terminal; stages of
\* different deployments may be RUNNING together.
C17_StagesRunSequentially ==
    \A d \in Deployments :
        /\ Cardinality(Running(d)) <= 1
        /\ \A i \in PipelineStages :
            (i > 1 /\ engStatus[d][i] # STAGE_NOT_STARTED_YET)
                => engStatus[d][i - 1] \in TerminalStatuses

C17_Witness ==
    /\ engStatus[1][1] = STAGE_FAILURE
    /\ engStatus[1][2] = STAGE_RUNNING
    /\ engStatus[2][1] = STAGE_RUNNING

\* ---------------------------------------------------------------------
\* Metadata Store: shared partition of one deployment
\* ---------------------------------------------------------------------
MetadataSetFirstWins(store, k, v) ==
    IF store[k] = Nil THEN [store EXCEPT ![k] = v] ELSE store

\* set(key, value): overwrite, last writer wins, nothing is deleted.
MetadataSet(store, k, v) == [store EXCEPT ![k] = v]

\* get(key) -> (value, found)
MetadataGet(store, k) == SharedGet(store[k])

\* The executing stage writes a key.
Metadata_Set ==
    /\ Len(metaWrites) < MaxWrites
    /\ \E k \in MetaKeys, v \in MetaValues :
        /\ metaStore' = MetadataSet(metaStore, k, v)
        /\ metaWrites' = Append(metaWrites,
                                [key |-> k, value |-> v, stage |-> metaStage])
    /\ UNCHANGED <<rollbackVars, dlgVars, lsvVars, decVars, repoVars, cpVars, sliceVars,
                   engVars, waitVars, metaStage, metaGot>>

\* The executing stage reads a key.
Metadata_Get ==
    /\ \E k \in MetaKeys :
        metaGot' = [key |-> k, res |-> MetadataGet(metaStore, k),
                    stage |-> metaStage, seen |-> Len(metaWrites)]
    /\ UNCHANGED <<rollbackVars, dlgVars, lsvVars, decVars, repoVars, cpVars, sliceVars,
                   engVars, waitVars, metaStore, metaWrites,
                   metaStage>>

\* The stage ends and the next stage of the deployment is executed.
Metadata_NextStage ==
    /\ metaStage < MaxPipelineStages
    /\ metaStage' = metaStage + 1
    /\ UNCHANGED <<rollbackVars, dlgVars, lsvVars, decVars, repoVars, cpVars, sliceVars,
                   engVars, waitVars, metaStore, metaWrites,
                   metaGot>>

InitMetadata ==
    /\ RollbackIdle /\ EngineIdle /\ MetadataIdle /\ WaitIdle /\ DecryptIdle
    /\ RepositoriesIdle /\ CloudProvidersIdle /\ SliceIdle /\ DialogIdle /\ LiveStateIdle

NextMetadata ==
    \/ Metadata_Set
    \/ Metadata_Get
    \/ Metadata_NextStage

SpecMetadata == InitMetadata /\ [][NextMetadata]_vars

\* Positions among the first n writes that wrote key k.
WritesOf(k, n) == {i \in 1..n : metaWrites[i].key = k}

Latest(S) == CHOOSE i \in S : \A j \in S : j <= i

\* C18: a get returns found = true with the value of the most recent set
\* of that key, made by the same or an earlier stage, and found = false
\* only when the key was never set; the store holds no other value.
C18_LastWriterWins ==
    /\ metaGot # NoGet =>
        LET w == WritesOf(metaGot.key, metaGot.seen) IN
        /\ metaGot.res.ok <=> w # {}
        /\ w # {} =>
            /\ metaGot.res.value = metaWrites[Latest(w)].value
            /\ metaWrites[Latest(w)].stage <= metaGot.stage
    /\ \A k \in MetaKeys :
        LET w == WritesOf(k, Len(metaWrites)) IN
        metaStore[k] = IF w = {} THEN Nil ELSE metaWrites[Latest(w)].value

C18_Witness ==
    /\ metaGot # NoGet
    /\ metaGot.key = canaryTargetGroupArnKey
    /\ metaGot.stage = 2
    /\ metaGot.seen = 2
    /\ metaWrites[1] = [key |-> canaryTargetGroupArnKey, value |-> CanaryArn,
                        stage |-> 1]
    /\ metaWrites[2] = [key |-> canaryTargetGroupArnKey,
                        value |-> StoredCanaryArn, stage |-> 1]
    /\ metaGot.res = [value |-> StoredCanaryArn, ok |-> TRUE]

\* ---------------------------------------------------------------------
\* wait plugin
\* ---------------------------------------------------------------------
stageWait == "WAIT"

ManualOperationNone == "ManualOperationNone"

\* map[string]string{}
EmptyMetadata == [k \in {} |-> ""]

RequestIndexes == 0..1
RequestNames == {stageWait, "WAIT_APPROVAL"}
RequestStage == [Index : RequestIndexes, Name : RequestNames]

RECURSIVE SeqsUpTo(_, _)
\* The sequences over S of length at most n.
SeqsUpTo(S, n) ==
    IF n = 0 THEN {<<>>}
    ELSE LET shorter == SeqsUpTo(S, n - 1) IN
         shorter \cup {Append(q, x) : q \in {r \in shorter : Len(r) = n - 1},
                                        x \in S}

PipelineStageRollback(rs) ==
    [Index |-> rs.Index, Name |-> rs.Name, Rollback |-> TRUE,
     Metadata |-> EmptyMetadata, AvailableOperation |-> ManualOperationNone]

\* stage := sdk.PipelineStage{Index: rs.Index, Name: rs.Name, ...}
PipelineStage(rs) ==
    [Index |-> rs.Index, Name |-> rs.Name, Rollback |-> FALSE,
     Metadata |-> EmptyMetadata, AvailableOperation |-> ManualOperationNone]

RECURSIVE BuildStages(_, _)
\* for _, rs := range input.Request.Stages { stages = append(stages, stage) }
BuildStages(stages, rest) ==
    IF rest = <<>> THEN stages
    ELSE BuildStages(Append(stages, PipelineStage(Head(rest))), Tail(rest))

\* plugin.BuildPipelineSyncStages
BuildPipelineSyncStages(request) ==
    [returned |-> TRUE, Stages |-> BuildStages(<<>>, request), err |-> Nil]

WaitPlugin_BuildPipelineSyncStages ==
    /\ ~waitResponse.returned
    /\ waitResponse' = BuildPipelineSyncStages(waitRequest)
    /\ UNCHANGED <<rollbackVars, dlgVars, lsvVars, decVars, repoVars, cpVars, sliceVars,
                   engVars, metaVars, waitRequest, waitExecute,
                   waitDefined>>

\* Statuses executeWait may compute for a stage.
WaitStatuses == {"StageStatusSuccess", "StageStatusFailure", "StageStatusExited"}

ExecuteStageErrorOnFailure(st) ==
    [Status |-> st,
     err |-> IF st = "StageStatusFailure" THEN "wait failed" ELSE Nil]

\* return &sdk.ExecuteStageResponse{Status: status}, nil
ExecuteStage(st) == [Status |-> st, err |-> Nil]

\* plugin.ExecuteStage: status := p.executeWait(ctx, input)
WaitPlugin_ExecuteStage ==
    /\ ~waitExecute.returned
    /\ \E st \in WaitStatuses :
        LET response == ExecuteStage(st) IN
        waitExecute' = [returned |-> TRUE, computed |-> st,
                        Status |-> response.Status, err |-> response.err]
    /\ UNCHANGED <<rollbackVars, dlgVars, lsvVars, decVars, repoVars, cpVars, sliceVars,
                   engVars, metaVars, waitRequest, waitResponse,
                   waitDefined>>

\* return []string{stageWait}
FetchDefinedStages == <<stageWait>>

\* plugin.FetchDefinedStages
WaitPlugin_FetchDefinedStages ==
    /\ ~waitDefined.returned
    /\ waitDefined' = [returned |-> TRUE, stages |-> FetchDefinedStages]
    /\ UNCHANGED <<rollbackVars, dlgVars, lsvVars, decVars, repoVars, cpVars, sliceVars,
                   engVars, metaVars, waitRequest, waitResponse,
                   waitExecute>>

InitWait ==
    /\ RollbackIdle
    /\ EngineIdle
    /\ MetadataIdle
    /\ DecryptIdle
    /\ RepositoriesIdle
    /\ CloudProvidersIdle
    /\ SliceIdle /\ DialogIdle /\ LiveStateIdle
    /\ waitRequest \in SeqsUpTo(RequestStage, MaxRequestStages)
    /\ waitResponse = NoResponse
    /\ waitExecute = NoExecute
    /\ waitDefined = NoDefined

NextWait ==
    \/ WaitPlugin_BuildPipelineSyncStages
    \/ WaitPlugin_ExecuteStage
    \/ WaitPlugin_FetchDefinedStages

SpecWait == InitWait /\ [][NextWait]_vars

\* C20: the response of BuildPipelineSyncStages has one stage per requested
\* stage, in the same order, with the requested Index and Name, Rollback
\* false, empty Metadata and ManualOperationNone, and its error is nil,
\* also for an empty request.
C20_WaitStagesMirrorRequest ==
    waitResponse.returned =>
        /\ waitResponse.err = Nil
        /\ Len(waitResponse.Stages) = Len(waitRequest)
        /\ \A i \in 1..Len(waitRequest) :
            /\ waitResponse.Stages[i].Index = waitRequest[i].Index
            /\ waitResponse.Stages[i].Name = waitRequest[i].Name
            /\ waitResponse.Stages[i].Rollback = FALSE
            /\ DOMAIN waitResponse.Stages[i].Metadata = {}
            /\ waitResponse.Stages[i].AvailableOperation = ManualOperationNone

C20_Witness ==
    /\ waitResponse.returned
    /\ Len(waitRequest) = 3
    /\ waitRequest[1] = [Index |-> 1, Name |-> "WAIT_APPROVAL"]
    /\ waitRequest[2] = [Index |-> 0, Name |-> stageWait]
    /\ waitRequest[3] = [Index |-> 1, Name |-> stageWait]
    /\ Len(waitResponse.Stages) = 3

\* C21: FetchDefinedStages declares exactly the stage names {WAIT}, and
\* ExecuteStage returns, for every status the wait computes, a response
\* carrying that status together with a nil error.
C21_WaitDeclaresWaitNeverFails ==
    /\ waitDefined.returned => Range(waitDefined.stages) = {"WAIT"}
    /\ waitExecute.returned =>
        /\ waitExecute.err = Nil
        /\ waitExecute.Status = waitExecute.computed
        /\ waitExecute.Status \in WaitStatuses

C21_Witness ==
    /\ waitDefined.returned
    /\ waitExecute.returned
    /\ waitExecute.computed = "StageStatusFailure"
    /\ waitExecute.Status = "StageStatusFailure"

\* ---------------------------------------------------------------------
\* sourcedecrypter: DecryptSecrets
\* ---------------------------------------------------------------------
\* dcr := testSecretDecrypter{prefix: "decrypted-"}
DecryptPrefix == "decrypted-"

\* testSecretDecrypter.Decrypt
Decrypt(text) == DecryptPrefix \o text

\* Files written into the application directory, and the names a target
\* may have.
FileNames == {"resource.yaml", "resource2.yaml"}
TargetNames == FileNames \cup {"not-found-resource.yaml"}

SecretKeys == {"password", "foo"}

\* Contents of the source files.
Templates ==
    { <<TextNode("resource-data")>>,
      <<TextNode("resource-data: "), FieldNode("password")>>,
      <<TextNode("bar is "), FieldNode("foo"), TextNode(", pw is "),
        FieldNode("password")>>,
      <<TextNode("resource-data: "), FieldNode("password"), TextNode(", "),
        FieldNode("nonexistent")>> }

RECURSIVE SourceText(_)
\* The text of a source file, as written by ioutil.WriteFile.
SourceText(nodes) ==
    IF nodes = <<>> THEN ""
    ELSE LET n == Head(nodes) IN
         (IF n.kind = "text" THEN n.v
          ELSE "{{ .encryptedSecrets." \o n.v \o " }}") \o SourceText(Tail(nodes))

DecryptedSecretsUndecrypted(enc) == enc

\* The data of the templates: every encrypted secret, decrypted.
DecryptedSecrets(enc) == [k \in DOMAIN enc |-> Decrypt(enc[k])]

\* Parsing a target: a file DecryptSecrets has overwritten holds plain
\* text, any other file holds what it was written with.
ParseFile(t) ==
    IF t \in decRendered THEN <<TextNode(decFiles[t])>> ELSE decSources[t]

EvalFieldNoValue(data, k) ==
    [ok |-> TRUE, v |-> IF k \in DOMAIN data THEN data[k] ELSE "<no value>"]

\* Evaluation of {{ .encryptedSecrets.k }}: a key the map does not have
\* is an error.
EvalField(data, k) ==
    [ok |-> k \in DOMAIN data, v |-> IF k \in DOMAIN data THEN data[k] ELSE ""]

RECURSIVE TemplateExecute(_, _, _)
\* Executing a template writes the output node by node and stops at the
\* first node that fails.
TemplateExecute(nodes, data, out) ==
    IF nodes = <<>> THEN [ok |-> TRUE, out |-> out]
    ELSE LET n == Head(nodes) IN
         IF n.kind = "text"
         THEN TemplateExecute(Tail(nodes), data, out \o n.v)
         ELSE LET f == EvalField(data, n.v) IN
              IF f.ok
              THEN TemplateExecute(Tail(nodes), data, out \o f.v)
              ELSE [ok |-> FALSE, out |-> out]

ParseError(t) == "failed to parse decryption target " \o t

RenderError(t) == "failed to render decryption target " \o t

\* The secrets are decrypted before any target is touched.
DecryptSecrets_Decrypt ==
    /\ decPc = "DecryptSecrets"
    /\ decData' = DecryptedSecrets(decEncrypted)
    /\ decPc' = "targets"
    /\ UNCHANGED <<rollbackVars, dlgVars, lsvVars, engVars, metaVars, waitVars, repoVars,
                   cpVars, sliceVars, decSources,
                   decEncrypted, decTargets, decFiles, decRendered, decIdx,
                   decErr>>

\* One iteration of the loop over enc.DecryptionTargets: parse the target,
\* then overwrite it with the rendered template.
DecryptSecrets_Target ==
    /\ decPc = "targets"
    /\ decIdx <= Len(decTargets)
    /\ LET t == decTargets[decIdx] IN
       IF t \notin DOMAIN decFiles
       THEN /\ decErr' = ParseError(t)
            /\ decPc' = "done"
            /\ UNCHANGED <<decFiles, decRendered, decIdx>>
       ELSE LET r == TemplateExecute(ParseFile(t), decData, "") IN
            /\ decFiles' = [decFiles EXCEPT ![t] = r.out]
            /\ decRendered' = decRendered \cup {t}
            /\ IF r.ok
               THEN /\ decIdx' = decIdx + 1
                    /\ UNCHANGED <<decPc, decErr>>
               ELSE /\ decErr' = RenderError(t)
                    /\ decPc' = "done"
                    /\ UNCHANGED decIdx
    /\ UNCHANGED <<rollbackVars, dlgVars, lsvVars, engVars, metaVars, waitVars, repoVars,
                   cpVars, sliceVars, decSources,
                   decEncrypted, decTargets, decData>>

\* Every target has been rendered: return nil.
DecryptSecrets_Return ==
    /\ decPc = "targets"
    /\ decIdx > Len(decTargets)
    /\ decPc' = "done"
    /\ UNCHANGED <<rollbackVars, dlgVars, lsvVars, engVars, metaVars, waitVars, repoVars,
                   cpVars, sliceVars, decSources,
                   decEncrypted, decTargets, decFiles, decRendered, decData,
                   decIdx, decErr>>

InitDecrypt ==
    /\ RollbackIdle
    /\ EngineIdle
    /\ MetadataIdle
    /\ WaitIdle
    /\ RepositoriesIdle
    /\ CloudProvidersIdle
    /\ SliceIdle /\ DialogIdle /\ LiveStateIdle
    /\ decSources \in [FileNames -> Templates]
    /\ decEncrypted \in {[k \in K |-> "encrypted-" \o k] : K \in SUBSET SecretKeys}
    /\ decTargets \in SeqsUpTo(TargetNames, MaxTargets)
    /\ decFiles = [p \in FileNames |-> SourceText(decSources[p])]
    /\ decRendered = {}
    /\ decData = EmptyMap
    /\ decIdx = 1
    /\ decPc = "DecryptSecrets"
    /\ decErr = Nil

NextDecrypt ==
    \/ DecryptSecrets_Decrypt
    \/ DecryptSecrets_Target
    \/ DecryptSecrets_Return

SpecDecrypt == InitDecrypt /\ [][NextDecrypt]_vars

\* The secret keys a source file refers to.
Fields(nodes) == {nodes[i].v : i \in {j \in 1..Len(nodes) : nodes[j].kind = "field"}}

\* Positions of the targets that do not exist or refer to a missing secret.
BadTargets ==
    {i \in 1..Len(decTargets) :
        \/ decTargets[i] \notin FileNames
        \/ ~(Fields(decSources[decTargets[i]]) \subseteq DOMAIN decEncrypted)}

RECURSIVE Replaced(_)
\* The source with every reference replaced by the decrypted secret.
Replaced(nodes) ==
    IF nodes = <<>> THEN ""
    ELSE LET n == Head(nodes) IN
         (IF n.kind = "text" THEN n.v
          ELSE "decrypted-" \o decEncrypted[n.v]) \o Replaced(Tail(nodes))

\* C22: when every target exists and refers only to keys of
\* EncryptedSecrets, DecryptSecrets returns nil and every target file holds
\* its source with each reference replaced by the decrypted secret; a
\* target without references keeps its content.
C22_TargetsRenderedWithDecryptedSecrets ==
    (decPc = "done" /\ BadTargets = {}) =>
        /\ decErr = Nil
        /\ \A i \in 1..Len(decTargets) :
            LET t == decTargets[i] IN
            /\ decFiles[t] = Replaced(decSources[t])
            /\ Fields(decSources[t]) = {} => decFiles[t] = SourceText(decSources[t])
        /\ \A p \in FileNames \ Range(decTargets) :
            decFiles[p] = SourceText(decSources[p])

C22_Witness ==
    /\ decPc = "done"
    /\ decErr = Nil
    /\ decTargets = <<"resource.yaml", "resource2.yaml">>
    /\ decFiles["resource.yaml"] = "resource-data: decrypted-encrypted-password"
    /\ decFiles["resource2.yaml"] =
           "bar is decrypted-encrypted-foo, pw is decrypted-encrypted-password"

\* C23: when a target does not exist or refers to a key that is not in
\* EncryptedSecrets, DecryptSecrets returns an error, never nil: "failed to
\* parse decryption target <name>" for the missing file, "failed to render
\* decryption target <name>" for the missing key, naming the first such
\* target.
C23_MissingTargetOrSecretFails ==
    (decPc = "done" /\ BadTargets # {}) =>
        LET i == CHOOSE j \in BadTargets : \A k \in BadTargets : j <= k
            t == decTargets[i]
        IN  /\ decErr # Nil
            /\ decErr = IF t \notin FileNames
                        THEN "failed to parse decryption target " \o t
                        ELSE "failed to render decryption target " \o t
            /\ decIdx = i

C23_Witness ==
    /\ decPc = "done"
    /\ decTargets = <<"resource2.yaml", "resource.yaml">>
    /\ decFiles["resource2.yaml"] = "resource-data: decrypted-encrypted-password"
    /\ DOMAIN decEncrypted = {"password"}
    /\ "nonexistent" \in Fields(decSources["resource.yaml"])
    /\ decErr = "failed to render decryption target resource.yaml"

\* ---------------------------------------------------------------------
\* config.PipedSpec: repositories
\* ---------------------------------------------------------------------
RepoIDs == {"repo1", "repo2"}
Remotes == {"git@github.com:org/repo1.git", "git@github.com:org/repo2.git"}
Branches == {"master"}

\* type PipedRepository struct
PipedRepository == [RepoID : RepoIDs, Remote : Remotes, Branch : Branches]

\* The ids looked up: the configured ones, one that is not configured and
\* the empty id.
LookupIDs == RepoIDs \cup {"repo3", ""}

\* m[repo.RepoID] = repo
MapPut(m, repo) ==
    [k \in DOMAIN m \cup {repo.RepoID} |->
        IF k = repo.RepoID THEN repo ELSE m[k]]

RECURSIVE RepositoryMapOf(_, _)
\* for _, repo := range s.Repositories { m[repo.RepoID] = repo }
RepositoryMapOf(m, repos) ==
    IF repos = <<>> THEN m
    ELSE RepositoryMapOf(MapPut(m, Head(repos)), Tail(repos))

\* PipedSpec.GetRepositoryMap
GetRepositoryMap(repos) == RepositoryMapOf(NoMapGot.m, repos)

RECURSIVE GetRepository(_, _)
\* PipedSpec.GetRepository
GetRepository(repos, id) ==
    IF repos = <<>> THEN [repo |-> ZeroRepository, found |-> FALSE]
    ELSE IF Head(repos).RepoID = id
         THEN [repo |-> Head(repos), found |-> TRUE]
         ELSE GetRepository(Tail(repos), id)

PipedSpec_GetRepository ==
    /\ \E id \in LookupIDs :
        LET got == GetRepository(cfgRepositories, id) IN
        cfgRepoGot' = [called |-> TRUE, id |-> id, repo |-> got.repo,
                       found |-> got.found]
    /\ UNCHANGED <<rollbackVars, dlgVars, lsvVars, engVars, metaVars, waitVars, decVars, cpVars,
                   sliceVars, cfgRepositories, cfgMapGot>>

PipedSpec_GetRepositoryMap ==
    /\ ~cfgMapGot.called
    /\ cfgMapGot' = [called |-> TRUE, m |-> GetRepositoryMap(cfgRepositories)]
    /\ UNCHANGED <<rollbackVars, dlgVars, lsvVars, engVars, metaVars, waitVars, decVars, cpVars,
                   sliceVars, cfgRepositories, cfgRepoGot>>

InitRepositories ==
    /\ RollbackIdle
    /\ EngineIdle
    /\ MetadataIdle
    /\ WaitIdle
    /\ DecryptIdle
    /\ CloudProvidersIdle
    /\ SliceIdle /\ DialogIdle /\ LiveStateIdle
    /\ cfgRepositories \in SeqsUpTo(PipedRepository, MaxRepositories)
    /\ cfgRepoGot = NoRepoGot
    /\ cfgMapGot = NoMapGot

NextRepositories ==
    \/ PipedSpec_GetRepository
    \/ PipedSpec_GetRepositoryMap

SpecRepositories == InitRepositories /\ [][NextRepositories]_vars

\* C28: GetRepository(id) reports found exactly when id is a key of
\* GetRepositoryMap(), and the repository it returns is the map's entry
\* for id, for every list of repositories, repeated RepoIDs included.
C28_GetRepositoryAgreesWithMap ==
    (cfgRepoGot.called /\ cfgMapGot.called) =>
        /\ cfgRepoGot.found <=> cfgRepoGot.id \in DOMAIN cfgMapGot.m
        /\ (cfgRepoGot.found /\ cfgRepoGot.id \in DOMAIN cfgMapGot.m)
              => cfgRepoGot.repo = cfgMapGot.m[cfgRepoGot.id]

\* ---------------------------------------------------------------------
\* config.PipedSpec: cloud providers
\* ---------------------------------------------------------------------
\* var DefaultKubernetesCloudProvider = PipedCloudProvider{...}
DefaultKubernetesCloudProvider ==
    [Name |-> "kubernetes-default", Type |-> "KUBERNETES"]

\* The providers a configuration file may list.
PipedCloudProvider ==
    { DefaultKubernetesCloudProvider,
      [Name |-> "kubernetes-default", Type |-> "TERRAFORM"],
      [Name |-> "kubernetes-prod", Type |-> "KUBERNETES"] }

HasDefaultProviderNever(cps) == FALSE

\* for _, cp := range s.CloudProviders {
\*     if cp.Name == DefaultKubernetesCloudProvider.Name { return } }
HasDefaultProvider(cps) ==
    \E i \in 1..Len(cps) : cps[i].Name = DefaultKubernetesCloudProvider.Name

\* PipedSpec.EnableDefaultKubernetesCloudProvider
EnableDefaultKubernetesCloudProvider(cps) ==
    IF HasDefaultProvider(cps) THEN cps
    ELSE Append(cps, DefaultKubernetesCloudProvider)

PipedSpec_EnableDefaultKubernetesCloudProvider ==
    /\ cfgEnableCalls < MaxEnableCalls
    /\ cfgCloudProviders' = EnableDefaultKubernetesCloudProvider(cfgCloudProviders)
    /\ cfgEnableCalls' = cfgEnableCalls + 1
    /\ cfgAfterFirst' = IF cfgEnableCalls = 0 THEN cfgCloudProviders'
                        ELSE cfgAfterFirst
    /\ UNCHANGED <<rollbackVars, dlgVars, lsvVars, engVars, metaVars, waitVars, decVars,
                   repoVars, sliceVars, cfgConfigured>>

InitCloudProviders ==
    /\ RollbackIdle
    /\ EngineIdle
    /\ MetadataIdle
    /\ WaitIdle
    /\ DecryptIdle
    /\ RepositoriesIdle
    /\ SliceIdle /\ DialogIdle /\ LiveStateIdle
    /\ cfgCloudProviders \in SeqsUpTo(PipedCloudProvider, MaxCloudProviders)
    /\ cfgConfigured = cfgCloudProviders
    /\ cfgAfterFirst = <<>>
    /\ cfgEnableCalls = 0

NextCloudProviders == PipedSpec_EnableDefaultKubernetesCloudProvider

SpecCloudProviders == InitCloudProviders /\ [][NextCloudProviders]_vars

\* Positions of the providers of a list named "kubernetes-default".
NamedDefault(cps) == {i \in 1..Len(cps) : cps[i].Name = "kubernetes-default"}

\* C29: after any number of calls of EnableDefaultKubernetesCloudProvider
\* the configured providers are still there in their order, followed by
\* the default provider exactly when none of them is named
\* "kubernetes-default"; some provider is named "kubernetes-default" and
\* the list is the one the first call left.
C29_EnableDefaultAppendsOnce ==
    cfgEnableCalls >= 1 =>
        /\ Len(cfgCloudProviders) >= Len(cfgConfigured)
        /\ SubSeq(cfgCloudProviders, 1, Len(cfgConfigured)) = cfgConfigured
        /\ Len(cfgCloudProviders) \in {Len(cfgConfigured), Len(cfgConfigured) + 1}
        /\ Len(cfgCloudProviders) = Len(cfgConfigured) + 1
              <=> NamedDefault(cfgConfigured) = {}
        /\ NamedDefault(cfgConfigured) = {} =>
              cfgCloudProviders[Len(cfgCloudProviders)] =
                  [Name |-> "kubernetes-default", Type |-> "KUBERNETES"]
        /\ NamedDefault(cfgCloudProviders) # {}
        /\ cfgCloudProviders = cfgAfterFirst

C29_Witness ==
    /\ cfgEnableCalls = 2
    /\ cfgConfigured = <<[Name |-> "kubernetes-prod", Type |-> "KUBERNETES"]>>
    /\ cfgCloudProviders = <<[Name |-> "kubernetes-prod", Type |-> "KUBERNETES"],
                             [Name |-> "kubernetes-default", Type |-> "KUBERNETES"]>>

\* ---------------------------------------------------------------------
\* deploymentFrequency slice
\* ---------------------------------------------------------------------
MODULE_NAME == "deploymentFrequency"

\* type LoadingStatus
LoadingStatus == {"idle", "loading", "succeeded", "failed"}

\* InsightDataPoint.AsObject
InsightDataPoint == {[timestamp |-> 1, value |-> 3], [timestamp |-> 2, value |-> 5]}

\* The payloads of a fulfilled fetch.
Payloads == SeqsUpTo(InsightDataPoint, MaxDataPoints)

\* Action types of the two thunks, and of an action of another slice.
FetchType(phase) == MODULE_NAME \o "/fetch/" \o phase
Fetch24hType(phase) == MODULE_NAME \o "/fetch24h/" \o phase
OtherType == "insight/changeRange"

SliceActions ==
    {[type |-> t, payload |-> <<>>] :
        t \in {FetchType("pending"), FetchType("rejected"),
               Fetch24hType("pending"), Fetch24hType("rejected"), OtherType}}
    \cup {[type |-> t, payload |-> p] :
            t \in {FetchType("fulfilled"), Fetch24hType("fulfilled")},
            p \in Payloads}

\* .addCase(fetchDeploymentFrequency.pending, ...)
fetchDeploymentFrequency_pending(state) == [state EXCEPT !.status = "loading"]

fetchDeploymentFrequency_rejectedClearsData(state) ==
    [state EXCEPT !.status = "failed", !.data = <<>>]

\* .addCase(fetchDeploymentFrequency.rejected, ...)
fetchDeploymentFrequency_rejected(state) == [state EXCEPT !.status = "failed"]

\* .addCase(fetchDeploymentFrequency.fulfilled, ...)
fetchDeploymentFrequency_fulfilled(state, payload) ==
    [state EXCEPT !.status = "succeeded", !.data = payload]

\* .addCase(fetchDeployment24h.pending, ...)
fetchDeployment24h_pending(state) == [state EXCEPT !.status24h = "loading"]

\* .addCase(fetchDeployment24h.rejected, ...)
fetchDeployment24h_rejected(state) == [state EXCEPT !.status24h = "failed"]

\* .addCase(fetchDeployment24h.fulfilled, ...)
fetchDeployment24h_fulfilled(state, payload) ==
    [state EXCEPT !.status24h = "succeeded", !.data24h = payload]

\* deploymentFrequencySlice.reducer: an action without a case leaves the
\* state as it is.
reducer(state, action) ==
    CASE action.type = FetchType("pending") ->
            fetchDeploymentFrequency_pending(state)
      [] action.type = FetchType("rejected") ->
            fetchDeploymentFrequency_rejected(state)
      [] action.type = FetchType("fulfilled") ->
            fetchDeploymentFrequency_fulfilled(state, action.payload)
      [] action.type = Fetch24hType("pending") ->
            fetchDeployment24h_pending(state)
      [] action.type = Fetch24hType("rejected") ->
            fetchDeployment24h_rejected(state)
      [] action.type = Fetch24hType("fulfilled") ->
            fetchDeployment24h_fulfilled(state, action.payload)
      [] OTHER -> state

\* The store dispatches an action to the slice.
Slice_Dispatch ==
    /\ \E action \in SliceActions :
        /\ sliceState' = reducer(sliceState, action)
        /\ sliceLast' = [type |-> action.type, payload |-> action.payload,
                         prev |-> sliceState]
    /\ UNCHANGED <<rollbackVars, dlgVars, lsvVars, engVars, metaVars, waitVars, decVars,
                   repoVars, cpVars>>

InitSlice ==
    /\ RollbackIdle
    /\ EngineIdle
    /\ MetadataIdle
    /\ WaitIdle
    /\ DecryptIdle
    /\ RepositoriesIdle
    /\ CloudProvidersIdle
    /\ SliceIdle /\ DialogIdle /\ LiveStateIdle

NextSlice == Slice_Dispatch

SpecSlice == InitSlice /\ [][NextSlice]_vars

Phases == {"pending", "rejected", "fulfilled"}

\* C30: an action of fetchDeploymentFrequency leaves status24h and data24h
\* as they were and an action of fetchDeployment24h leaves status and
\* data; pending sets the status to loading and rejected to failed, both
\* keeping the data, and fulfilled sets the status to succeeded and the
\* data to the payload.
C30_FetchLifecyclesIndependent ==
    LET prev == sliceLast.prev
        type == sliceLast.type
    IN  /\ type \in {"deploymentFrequency/fetch/" \o ph : ph \in Phases} =>
            /\ sliceState.status24h = prev.status24h
            /\ sliceState.data24h = prev.data24h
        /\ type \in {"deploymentFrequency/fetch24h/" \o ph : ph \in Phases} =>
            /\ sliceState.status = prev.status
            /\ sliceState.data = prev.data
        /\ type = "deploymentFrequency/fetch/pending" =>
            sliceState.status = "loading" /\ sliceState.data = prev.data
        /\ type = "deploymentFrequency/fetch/rejected" =>
            sliceState.status = "failed" /\ sliceState.data = prev.data
        /\ type = "deploymentFrequency/fetch/fulfilled" =>
            sliceState.status = "succeeded" /\ sliceState.data = sliceLast.payload
        /\ type = "deploymentFrequency/fetch24h/pending" =>
            sliceState.status24h = "loading" /\ sliceState.data24h = prev.data24h
        /\ type = "deploymentFrequency/fetch24h/rejected" =>
            sliceState.status24h = "failed" /\ sliceState.data24h = prev.data24h
        /\ type = "deploymentFrequency/fetch24h/fulfilled" =>
            /\ sliceState.status24h = "succeeded"
            /\ sliceState.data24h = sliceLast.payload

C30_Witness ==
    /\ sliceLast.type = "deploymentFrequency/fetch/rejected"
    /\ sliceLast.prev.status = "loading"
    /\ sliceLast.prev.data # <<>>
    /\ sliceState.data = sliceLast.prev.data
    /\ sliceState.status = "failed"
    /\ sliceState.status24h = "succeeded"
    /\ sliceState.data24h # <<>>

\* ---------------------------------------------------------------------
\* DeleteApplicationDialog (web console)
\* ---------------------------------------------------------------------
\* The applications the page may ask to delete.
ApplicationIds == {"app-1", "app-2"}

\* How a deleteApplication request ends.
RequestOutcomes == {"fulfilled", "rejected"}

\* The reasons the Dialog gives to onClose.
CloseReasons == {"backdropClick", "escapeKeyDown"}

\* const [application, isDeleting] = useAppSelector(...): the second part.
isDeleting == dlgDeleting

\* <Dialog open={Boolean(application)}>: the application is the one the
\* store names, undefined when it names none.
open == dlgApplicationId # Nil

\* Both buttons carry disabled={isDeleting}.
disabled == isDeleting

\* The promise dispatch(deleteApplication()) returns: the promise of an
\* async thunk is resolved with the action the request ended with, the
\* rejected one as well as the fulfilled one, so the callback given to
\* then() runs for every outcome.
ThenCallbackRuns(outcome) == outcome \in RequestOutcomes

\* The reducers of the deleteApplication slice.
setDeletingAppId(id) == dlgApplicationId' = id /\ UNCHANGED dlgDeleting
clearDeletingApp == dlgApplicationId' = Nil /\ UNCHANGED dlgDeleting
deleteApplication_pending == dlgDeleting' = TRUE /\ UNCHANGED dlgApplicationId
deleteApplication_fulfilled == dlgDeleting' = FALSE /\ dlgApplicationId' = Nil
deleteApplication_rejected == dlgDeleting' = FALSE /\ UNCHANGED dlgApplicationId

\* handleDelete: dispatch(deleteApplication()) starts the request; what
\* then() registers runs when the request settles.
handleDelete ==
    /\ deleteApplication_pending
    /\ dlgInFlight' = dlgInFlight + 1
    /\ dlgLog' = Append(dlgLog, "request")

\* handleCancel: dispatch(clearDeletingApp()).
handleCancel ==
    /\ clearDeletingApp
    /\ UNCHANGED <<dlgInFlight, dlgLog>>

\* onClose of the Dialog.
onClose(reason) ==
    IF reason # "backdropClick" \/ ~isDeleting
    THEN handleCancel
    ELSE UNCHANGED <<dlgApplicationId, dlgDeleting, dlgInFlight, dlgLog>>

\* The number of requests the Delete button has started.
Started == Cardinality({i \in DOMAIN dlgLog : dlgLog[i] = "request"})

\* The page asks for the deletion of an application: the dialog opens.
Page_SetDeletingAppId ==
    /\ ~open
    /\ \E id \in ApplicationIds : setDeletingAppId(id)
    /\ dlgLast' = [event |-> "open", isDeleting |-> isDeleting]
    /\ UNCHANGED <<rollbackVars, engVars, metaVars, waitVars, decVars,
                   repoVars, cpVars, sliceVars, lsvVars, dlgInFlight, dlgLog>>

\* A click on the Delete button.
Dialog_ClickDelete ==
    /\ open
    /\ ~disabled
    /\ Started < MaxDeletes
    /\ handleDelete
    /\ dlgLast' = [event |-> "delete", isDeleting |-> isDeleting]
    /\ UNCHANGED <<rollbackVars, engVars, metaVars, waitVars, decVars,
                   repoVars, cpVars, sliceVars, lsvVars>>

\* A click on the Cancel button.
Dialog_ClickCancel ==
    /\ open
    /\ ~disabled
    /\ handleCancel
    /\ dlgLast' = [event |-> "cancel", isDeleting |-> isDeleting]
    /\ UNCHANGED <<rollbackVars, engVars, metaVars, waitVars, decVars,
                   repoVars, cpVars, sliceVars, lsvVars>>

\* The Dialog asks to be closed: a click on the backdrop, the Escape key.
Dialog_OnClose ==
    /\ open
    /\ \E reason \in CloseReasons :
        /\ onClose(reason)
        /\ dlgLast' = [event |-> reason, isDeleting |-> isDeleting]
    /\ UNCHANGED <<rollbackVars, engVars, metaVars, waitVars, decVars,
                   repoVars, cpVars, sliceVars, lsvVars>>

\* A deleteApplication request settles: the slice reduces the action it
\* ended with, then the callback handleDelete gave to then() calls
\* onDeleted and adds the DELETE_APPLICATION_SUCCESS toast.
DeleteApplication_Settle ==
    /\ dlgInFlight > 0
    /\ \E outcome \in RequestOutcomes :
        /\ IF outcome = "fulfilled"
           THEN deleteApplication_fulfilled
           ELSE deleteApplication_rejected
        /\ dlgLog' = IF ThenCallbackRuns(outcome)
                     THEN dlgLog \o <<outcome, "onDeleted", "toast">>
                     ELSE Append(dlgLog, outcome)
    /\ dlgInFlight' = dlgInFlight - 1
    /\ dlgLast' = [event |-> "settle", isDeleting |-> isDeleting]
    /\ UNCHANGED <<rollbackVars, engVars, metaVars, waitVars, decVars,
                   repoVars, cpVars, sliceVars, lsvVars>>

InitDialog ==
    /\ RollbackIdle
    /\ EngineIdle /\ MetadataIdle /\ WaitIdle /\ DecryptIdle
    /\ RepositoriesIdle /\ CloudProvidersIdle /\ SliceIdle
    /\ DialogIdle /\ LiveStateIdle

NextDialog ==
    \/ Page_SetDeletingAppId
    \/ Dialog_ClickDelete
    \/ Dialog_ClickCancel
    \/ Dialog_OnClose
    \/ DeleteApplication_Settle

SpecDialog == InitDialog /\ [][NextDialog]_vars

\* C31: onDeleted and the DELETE_APPLICATION_SUCCESS toast happen only
\* right after a deleteApplication request started by the Delete button
\* was fulfilled, never after a rejected request, a Cancel or a close of
\* the dialog; and while isDeleting is true neither button starts an
\* action, so at most one request is in flight.
C31_DeletedOnlyAfterSuccess ==
    /\ \A i \in DOMAIN dlgLog :
        /\ dlgLog[i] = "onDeleted" => i > 1 /\ dlgLog[i - 1] = "fulfilled"
        /\ dlgLog[i] = "toast" => i > 2 /\ dlgLog[i - 2] = "fulfilled"
        /\ dlgLog[i] \in RequestOutcomes =>
            i > 1 /\ dlgLog[i - 1] = "request"
    /\ dlgLast.event \in {"delete", "cancel"} => ~dlgLast.isDeleting
    /\ dlgInFlight <= 1

\* ---------------------------------------------------------------------
\* LiveStateView (web console)
\* ---------------------------------------------------------------------
\* The deploy targets a resource may name, in the order sort() puts them.
DeployTargetOrder == <<"dt-a", "dt-b">>

\* ResourceState.AsObject: deployTarget is "" for a resource without one.
ResourceStates ==
    [id : {"r1", "r2"}, deployTarget : Range(DeployTargetOrder) \cup {""}]

\* The lists the parent gives as the resources prop.
ResourceLists == SeqsUpTo(ResourceStates, MaxResources)

\* What an expression of type ResourceState.AsObject[] evaluates to at run
\* time: a list, or undefined.
Undefined == [defined |-> FALSE, list |-> <<>>]
Defined(list) == [defined |-> TRUE, list |-> list]

RECURSIVE reduceByDeployTarget(_, _)
\* allResources.reduce((all, resource) => { ... }, {})
reduceByDeployTarget(all, rest) ==
    IF rest = <<>> THEN all
    ELSE LET resource == Head(rest)
             deployTarget == resource.deployTarget
             pushed ==
                 IF deployTarget = "" THEN all
                 ELSE IF deployTarget \in DOMAIN all
                      THEN [all EXCEPT ![deployTarget] = Append(@, resource)]
                      ELSE (deployTarget :> <<resource>>) @@ all
         IN  reduceByDeployTarget(pushed, Tail(rest))

\* const resourcesByDeployTarget = useMemo(...)
resourcesByDeployTarget(allResources) ==
    reduceByDeployTarget(EmptyMap, allResources)

\* const deployTargetList = useMemo(() => Object.keys(...).sort(), ...):
\* the keys, each once, in ascending order.
deployTargetList(allResources) ==
    SelectSeq(DeployTargetOrder,
              LAMBDA t : t \in DOMAIN resourcesByDeployTarget(allResources))

\* useEffect: the selection once the effect has run.
useEffect(selected, allResources) ==
    IF selected = "" /\ Len(deployTargetList(allResources)) > 0
    THEN deployTargetList(allResources)[1]
    ELSE selected

\* const resources = useMemo(...): the index of a key the object does not
\* hold is undefined.
resources(selected, allResources) ==
    IF selected = "" THEN Defined(<<>>)
    ELSE IF selected \in DOMAIN resourcesByDeployTarget(allResources)
         THEN Defined(resourcesByDeployTarget(allResources)[selected])
         ELSE Undefined

\* The parent renders the view with another list of resources.
LiveStateView_Update ==
    /\ \E allResources \in ResourceLists :
        /\ lsvAllResources' = allResources
        /\ lsvSelected' = useEffect(lsvSelected, allResources)
    /\ lsvLast' = [event |-> "update", selected |-> lsvSelected]
    /\ UNCHANGED <<rollbackVars, engVars, metaVars, waitVars, decVars,
                   repoVars, cpVars, sliceVars, dlgVars>>

\* The user selects one of the tabs of the DeployTargetTabBar.
DeployTargetTabBar_SelectTab ==
    /\ \E tab \in Range(deployTargetList(lsvAllResources)) :
        lsvSelected' = useEffect(tab, lsvAllResources)
    /\ lsvLast' = [event |-> "select", selected |-> lsvSelected]
    /\ UNCHANGED <<rollbackVars, engVars, metaVars, waitVars, decVars,
                   repoVars, cpVars, sliceVars, dlgVars, lsvAllResources>>

\* The view is mounted with its first list of resources.
InitLiveState ==
    /\ RollbackIdle
    /\ EngineIdle /\ MetadataIdle /\ WaitIdle /\ DecryptIdle
    /\ RepositoriesIdle /\ CloudProvidersIdle /\ SliceIdle
    /\ DialogIdle
    /\ lsvAllResources \in ResourceLists
    /\ lsvSelected = useEffect("", lsvAllResources)
    /\ lsvLast = [event |-> "mount", selected |-> ""]

NextLiveState ==
    \/ LiveStateView_Update
    \/ DeployTargetTabBar_SelectTab

SpecLiveState == InitLiveState /\ [][NextLiveState]_vars

\* C32: after any updates of the resource list and any tab selections, a
\* non-empty selected tab is one of the current deployTargetList, which is
\* sorted, and the graph gets exactly the resources whose deployTarget is
\* the selected tab, never one without a deployTarget; when nothing was
\* selected and the list is not empty, the first target gets selected.
C32_SelectedTabShowsItsResources ==
    LET list == deployTargetList(lsvAllResources)
        shown == resources(lsvSelected, lsvAllResources)
    IN  /\ \A i, j \in DOMAIN list :
            i < j => \E m, n \in DOMAIN DeployTargetOrder :
                        /\ m < n
                        /\ list[i] = DeployTargetOrder[m]
                        /\ list[j] = DeployTargetOrder[n]
        /\ lsvSelected # "" =>
            /\ lsvSelected \in Range(list)
            /\ shown = Defined(SelectSeq(lsvAllResources,
                    LAMBDA r : r.deployTarget = lsvSelected))
            /\ \A i \in DOMAIN shown.list : shown.list[i].deployTarget # ""
        /\ lsvSelected = "" => list = <<>>
        /\ lsvLast.event \in {"mount", "update"} /\ lsvLast.selected = ""
                /\ list # <<>> => lsvSelected = list[1]

====
